---- MODULE Spec2Model ----
(***************************************************************************)
(* Stegstr: steganographic codecs (DWT, DOT), the common MAGIC|LEN|BODY    *)
(* frame and the application envelope, modelled from src-tauri/src.        *)
(*                                                                         *)
(* Every component is a pipeline  input -> encode -> carrier -> decode.    *)
(* The state holds the payload handed to the encoder, the carrier that     *)
(* travels (frame bytes, envelope bytes, or an image), the outcome of the  *)
(* last fallible call, and the position in the pipeline.  Each component   *)
(* has its own specification (SpecFrame, SpecDwt, SpecDot, SpecEnv) over    *)
(* the same four variables.                                                *)
(*                                                                         *)
(* Bytes are the integers 0..255; byte strings are sequences (1-based      *)
(* here, 0-based in the source).  Rust's Result<Vec<u8>, String> is a      *)
(* record [ok, val, err].                                                  *)
(***************************************************************************)
EXTENDS Integers, Sequences, FiniteSets, TLC

VARIABLES pc, payload, carrier, result

vars == <<pc, payload, carrier, result>>

(***************************************************************************)
(* Result values                                                           *)
(***************************************************************************)
Ok(v) == [ok |-> TRUE, val |-> v, err |-> ""]

Err(e) == [ok |-> FALSE, val |-> <<>>, err |-> e]

NotRun == Err("(not run)")

(***************************************************************************)
(* Byte-string helpers                                                     *)
(***************************************************************************)
\* All byte strings over alphabet A of length at most n.
RECURSIVE SeqsUpTo(_, _)
SeqsUpTo(A, n) ==
  IF n = 0 THEN {<<>>}
  ELSE LET shorter == SeqsUpTo(A, n - 1)
       IN  shorter \cup {Append(s, a) : s \in {t \in shorter : Len(t) = n - 1}, a \in A}

\* The slice s[from .. to) of the source (0-based, end exclusive).
Slice(s, from, to) == SubSeq(s, from + 1, to)

\* u32::to_be_bytes of `n as u32` (n is a usize below 2^31 in the model, so
\* the cast does not truncate).
Be32(n) ==
  << (n \div 16777216) % 256, (n \div 65536) % 256, (n \div 256) % 256, n % 256 >>

\* Mutant of Be32: the length written little-endian (to_le_bytes).
Be32LittleEndian(n) ==
  << n % 256, (n \div 256) % 256, (n \div 65536) % 256, (n \div 16777216) % 256 >>

\* u32::from_be_bytes(b) as usize, kept as the two 16-bit halves <<hi, lo>>:
\* the value hi * 65536 + lo can reach 2^32 - 1.
U32Halves(b) == << b[1] * 256 + b[2], b[3] * 256 + b[4] >>

\* The u32 held in halves u exceeds the natural number m (no overflow).
U32Exceeds(u, m) ==
  \/ u[1] > m \div 65536
  \/ u[1] = m \div 65536 /\ u[2] > m % 65536

\* The value of the u32 held in halves u; used only where it is known to be
\* at most a sequence length.
U32Value(u) == u[1] * 65536 + u[2]

(***************************************************************************)
(* Frame codec: stego_dot.rs wrap_payload / unwrap_payload                 *)
(***************************************************************************)
\* b"STEGSTR"
MAGIC == <<83, 84, 69, 71, 83, 84, 82>>

MAGIC_LEN == 7

LENGTH_BYTES == 4

WrapPayloadWith(lenBytes, p) == MAGIC \o lenBytes \o p

\* Mutant of WrapPayload: the length field little-endian.
WrapPayloadLE(p) == WrapPayloadWith(Be32LittleEndian(Len(p)), p)

WrapPayload(p) == WrapPayloadWith(Be32(Len(p)), p)

\* Mutant of UnwrapPayload: rejects a frame followed by further bytes
\* (raw.len() != 11 + len instead of raw.len() < 11 + len).
UnwrapPayloadExact(raw) ==
  IF Len(raw) < MAGIC_LEN + LENGTH_BYTES THEN Err("Payload too short")
  ELSE IF Slice(raw, 0, MAGIC_LEN) # MAGIC THEN Err("Magic not found")
  ELSE LET len == U32Halves(Slice(raw, MAGIC_LEN, MAGIC_LEN + LENGTH_BYTES))
       IN  IF \/ U32Exceeds(len, Len(raw) - (MAGIC_LEN + LENGTH_BYTES))
              \/ U32Value(len) # Len(raw) - (MAGIC_LEN + LENGTH_BYTES)
           THEN Err("Payload length mismatch")
           ELSE Ok(Slice(raw, MAGIC_LEN + LENGTH_BYTES,
                         MAGIC_LEN + LENGTH_BYTES + U32Value(len)))

UnwrapPayload(raw) ==
  IF Len(raw) < MAGIC_LEN + LENGTH_BYTES THEN Err("Payload too short")
  ELSE IF Slice(raw, 0, MAGIC_LEN) # MAGIC THEN Err("Magic not found")
  ELSE LET len == U32Halves(Slice(raw, MAGIC_LEN, MAGIC_LEN + LENGTH_BYTES))
       IN  \* raw.len() < MAGIC_LEN + LENGTH_BYTES + len, in usize (64 bits)
           IF U32Exceeds(len, Len(raw) - (MAGIC_LEN + LENGTH_BYTES))
           THEN Err("Payload length mismatch")
           ELSE Ok(Slice(raw, MAGIC_LEN + LENGTH_BYTES,
                         MAGIC_LEN + LENGTH_BYTES + U32Value(len)))

(***************************************************************************)
(* SpecFrame: wrap a body, or receive arbitrary bytes, then unwrap.        *)
(***************************************************************************)
\* Longest body (and longest tail after the length field) tried.
MaxBodyLen == 3

\* Byte values bodies are built from: NUL, 'S' (the magic's first byte), 0xFF.
FrameAlphabet == {0, 83, 255}

FrameBodies == SeqsUpTo(FrameAlphabet, MaxBodyLen)

\* "STEGSTR", and the magic with its first or its last byte changed.
FramePrefixes ==
  { MAGIC, <<115, 84, 69, 71, 83, 84, 82>>, <<83, 84, 69, 71, 83, 84, 83>> }

\* Length fields: small lengths around the tail sizes, and values whose high
\* bytes are set (up to 2^32 - 1).
FrameLenFields ==
  { <<0, 0, 0, n>> : n \in 0..(MaxBodyLen + 1) }
    \cup { <<0, 0, 1, 0>>, <<0, 1, 0, 0>>, <<1, 0, 0, 0>>, <<128, 0, 0, 0>>,
           <<255, 255, 255, 255>> }

\* Arbitrary received bytes: prefix, length field and tail, and every
\* truncation of these (the too-short inputs among them).
FrameRawInputs ==
  { SubSeq(p \o l \o t, 1, k) :
      <<p, l, t, k>> \in
        { q \in FramePrefixes \X FrameLenFields \X FrameBodies
                  \X (0..(MAGIC_LEN + LENGTH_BYTES + MaxBodyLen)) :
            q[4] <= MAGIC_LEN + LENGTH_BYTES + Len(q[3])
            /\ (q[4] < MAGIC_LEN + LENGTH_BYTES => q[3] = <<>>) } }

InitFrame ==
  /\ result = NotRun
  /\ \/ pc = "to_wrap" /\ payload \in FrameBodies /\ carrier = <<>>
     \/ pc = "received" /\ payload = <<>> /\ carrier \in FrameRawInputs

\* wrap_payload(payload)
FrameWrap ==
  /\ pc = "to_wrap"
  /\ carrier' = WrapPayload(payload)
  /\ pc' = "wrapped"
  /\ UNCHANGED <<payload, result>>

\* unwrap_payload(carrier), of a wrapped body or of received bytes
FrameUnwrap ==
  /\ pc \in {"wrapped", "received"}
  /\ result' = UnwrapPayload(carrier)
  /\ pc' = IF pc = "wrapped" THEN "roundtrip" ELSE "unwrapped"
  /\ UNCHANGED <<payload, carrier>>

NextFrame == FrameWrap \/ FrameUnwrap

SpecFrame == InitFrame /\ [][NextFrame]_vars

\* C4. Frame round-trip: unwrapping the frame that wrap_payload built from a
\* body b succeeds and returns exactly b.
C4_FrameRoundTrip ==
  pc = "roundtrip" => result = Ok(payload)

\* A body of the greatest length tried has been wrapped and unwrapped.
C4_Witness ==
  pc = "roundtrip" /\ Len(payload) = MaxBodyLen /\ result.ok

\* The outcome the frame contract gives for raw: the cases in order, the
\* length field read as the n whose big-endian encoding it is.
FrameContract(raw) ==
  IF Len(raw) < 11 THEN Err("Payload too short")
  ELSE IF \E i \in 1..7 : raw[i] # MAGIC[i] THEN Err("Magic not found")
  ELSE IF \A n \in 0..(Len(raw) - 11) : Be32(n) # <<raw[8], raw[9], raw[10], raw[11]>>
       THEN Err("Payload length mismatch")
  ELSE LET n == CHOOSE n \in 0..(Len(raw) - 11) :
                  Be32(n) = <<raw[8], raw[9], raw[10], raw[11]>>
       IN  Ok([i \in 1..n |-> raw[11 + i]])

\* C5. Frame unwrap outcomes: too short below 11 bytes, else bad magic, else
\* length mismatch when 11 + LEN exceeds the input, else exactly the LEN bytes
\* that follow the header, whatever comes after them.
C5_UnwrapOutcomes ==
  pc \in {"unwrapped", "roundtrip"} => result = FrameContract(carrier)

\* A valid frame followed by further bytes has been unwrapped to its body.
C5_Witness ==
  /\ pc = "unwrapped"
  /\ result.ok
  /\ Len(result.val) > 0
  /\ Len(carrier) > 11 + Len(result.val)

(***************************************************************************)
(* DWT codec: stego.rs                                                     *)
(*                                                                         *)
(* An image is a record [w, h, raw].  raw stands for the RGBA byte array   *)
(* of RgbaImage::as_raw (row-major, 4 bytes a pixel, indices from 0).  An  *)
(* array is held as the expression that produced it, a record tagged with  *)
(* op, and ByteAt(raw, k) is its byte at index k:                          *)
(*   "cover"          the pixels of a cover image (CoverByte)              *)
(*   "crop"           image::imageops::crop_imm(..).to_image()             *)
(*   "encode_tile"    the tile encode copies out of raw                    *)
(*   "embed"          out_raw returned by embed_in_tile                    *)
(*   "out_img"        out_img at the end of encode's tile loop             *)
(*   "decode_window"  the tile decode copies out of raw                    *)
(* so that a 256x256 tile costs only the bytes that are read.              *)
(***************************************************************************)
TILE_SIZE == 256

DECODE_STEP == 128

Min(a, b) == IF a < b THEN a ELSE b

Max(a, b) == IF a > b THEN a ELSE b

\* i32 division, which truncates toward zero (TLA+ \div rounds down).
TruncDiv(a, b) == IF a >= 0 THEN a \div b ELSE -((-a) \div b)

\* v.clamp(0, 255)
Clamp255(v) == IF v < 0 THEN 0 ELSE IF v > 255 THEN 255 ELSE v

\* if n % 2 == 0 { n } else { n - 1 }   (the subtraction saturating at 0)
EvenFloor(n) == IF n % 2 = 0 THEN n ELSE Max(n - 1, 0)

\* Cover pixels.  "gradient" is the cover of the repository's test: pixel i
\* has v = i mod 256 and is (v, v+1, v+2, 255), the additions wrapping.
\* "flat" has every colour channel equal to c.v.  "bands" is flat within
\* each TILE_SIZE columns and 64 brighter from one band to the next, so that
\* the grid tiles of a row differ.  Alpha is 255, except in "alpha_ramp",
\* which is flat in colour and has alpha (x / 2 + y) mod 256 at pixel (x, y).
CoverByte(c, k) ==
  IF k % 4 = 3
  THEN (IF c.kind = "alpha_ramp"
        THEN ((((k \div 4) % c.w) \div 2) + ((k \div 4) \div c.w)) % 256
        ELSE 255)
  ELSE IF c.kind = "gradient" THEN (((k \div 4) % 256) + (k % 4)) % 256
  ELSE IF c.kind = "bands" THEN (c.v + 64 * (((k \div 4) % c.w) \div TILE_SIZE)) % 256
  ELSE c.v

\* (to_embed[byte_idx] >> bit_in_byte) & 1 for global bit index g
EmbedBit(to_embed, g) == (to_embed[g \div 8 + 1] \div (2 ^ (7 - (g % 8)))) % 2

\* (lh & !1) | bit on a two's-complement i32
SetLsb(v, bit) == v - (v % 2) + bit

\* haar2d_forward's coefficients of one 2x2 block [a, b; c, d]
HaarBlock(a, b, c, d) ==
  [ ll |-> TruncDiv(a + b + c + d, 4),
    lh |-> TruncDiv(b + d - a - c, 4),
    hl |-> TruncDiv(c + d - a - b, 4),
    hh |-> TruncDiv(b + c - a - d, 4) ]

\* haar2d_inverse's pixel at row dy, column dx (0 or 1) of a block
HaarPixel(ll, lh, hl, hh, dx, dy) ==
  IF dy = 0 /\ dx = 0 THEN Clamp255(ll - lh - hl - hh)
  ELSE IF dy = 0 THEN Clamp255(ll + lh - hl + hh)
  ELSE IF dx = 0 THEN Clamp255(ll - lh + hl + hh)
  ELSE Clamp255(ll + lh + hl - hh)

\* (0..n).step_by(TILE_SIZE)
TileOrigins(n) == {t \in 0..(n - 1) : t % TILE_SIZE = 0}

\* tw_even (th_even) of the grid tile at origin t along an axis of length n
TileExtent(n, t) == EvenFloor(Min(TILE_SIZE, n - t))

\* The tile at (tx, ty) is not skipped by encode's loop: tw_even >= 2,
\* th_even >= 2 and capacity >= bits_needed.
TileHasCapacity(w, h, tx, ty, bits_needed) ==
  /\ TileExtent(w, tx) >= 2
  /\ TileExtent(h, ty) >= 2
  /\ (TileExtent(w, tx) \div 2) * (TileExtent(h, ty) \div 2) * 3 >= bits_needed

\* row_start of row y of the tile at (tx, ty), as encode computes it
EncodeRowStart(w, tx, ty, y) == (ty + y) * w * 4

\* embed_in_tile's capacity test passes
EmbedFits(tw, th, to_embed) == Len(to_embed) * 8 <= (tw \div 2) * (th \div 2) * 3

RECURSIVE ByteAt(_, _)

\* The four bytes of channel ch in the 2x2 block (i, j) of the tw-wide tile raw,
\* in the order a, b, c, d = (row 0, col 0), (0, 1), (1, 0), (1, 1).
BlockBytes(raw, tw, i, j, ch) ==
  [n \in 0..3 |-> ByteAt(raw, (i * 2 + n \div 2) * (tw * 4) + (j * 2 + (n % 2)) * 4 + ch)]

\* haar2d_forward on the block px
Haar2dForward(px) == HaarBlock(px[0], px[1], px[2], px[3])

\* embed_in_tile on one block px: haar2d_forward, LH's LSB replaced by bit (LH
\* left as it is when bit = -1: global_idx >= bits_needed), haar2d_inverse; the
\* pixel written at row dy, column dx of the block.
BlockEmbedded(px, bit, dx, dy) ==
  LET f == Haar2dForward(px)
      lh_mod == IF bit = -1 THEN f.lh ELSE SetLsb(f.lh, bit)
  IN  HaarPixel(f.ll, lh_mod, f.hl, f.hh, dx, dy)

\* out_raw[k] when embed_in_tile(raw, tw, th, to_embed) returns: alpha bytes
\* and bytes outside the 2x2 blocks are raw's; a colour byte of channel ch is
\* written by haar2d_inverse from the coefficients of its block, LH carrying
\* payload bit global_idx when global_idx < bits_needed.  (The pass for one
\* channel reads and writes that channel's bytes only.)
EmbeddedByte(raw, tw, th, to_embed, k) ==
  LET ch == k % 4
      half_w == tw \div 2
      half_h == th \div 2
      y == k \div (tw * 4)
      x == (k % (tw * 4)) \div 4
      i == y \div 2
      j == x \div 2
      global_idx == ch * (half_w * half_h) + (i * half_w + j)
      in_block == ch # 3 /\ j < half_w /\ i < half_h
  IN  IF in_block
      THEN BlockEmbedded(BlockBytes(raw, tw, i, j, ch),
                         IF global_idx >= Len(to_embed) * 8 THEN -1
                         ELSE EmbedBit(to_embed, global_idx),
                         x % 2, y % 2)
      ELSE ByteAt(raw, k)

\* out_img[k] after encode's loop over the tile grid of the w x h raster raw:
\* the byte lies in one grid tile; if that tile was embedded it is the byte
\* copied back from the tile's modified rows, else it is raw's.
OutImgByte(raw, w, h, to_embed, k) ==
  LET y == k \div (w * 4)
      xb == k % (w * 4)
      ty == (y \div TILE_SIZE) * TILE_SIZE
      tx == ((xb \div 4) \div TILE_SIZE) * TILE_SIZE
      tw_even == TileExtent(w, tx)
      th_even == TileExtent(h, ty)
      embedded == /\ TileHasCapacity(w, h, tx, ty, Len(to_embed) * 8)
                  /\ EmbedFits(tw_even, th_even, to_embed)
                  /\ y - ty < th_even
                  /\ xb - tx * 4 < tw_even * 4
  IN  ByteAt(IF embedded
             THEN [op |-> "embed", tw |-> tw_even, th |-> th_even, to_embed |-> to_embed,
                   src |-> [op |-> "encode_tile", src |-> raw, w |-> w, tx |-> tx,
                            ty |-> ty, tw |-> tw_even]]
             ELSE raw,
             IF embedded THEN (y - ty) * (tw_even * 4) + (xb - tx * 4) ELSE k)

\* The byte at index k of the array raw.
ByteAt(raw, k) ==
  CASE raw.op = "cover" -> CoverByte(raw.c, k)
    [] raw.op = "embed" -> EmbeddedByte(raw.src, raw.tw, raw.th, raw.to_embed, k)
    [] raw.op = "out_img" -> OutImgByte(raw.src, raw.w, raw.h, raw.to_embed, k)
    [] OTHER ->
         ByteAt(raw.src,
                CASE raw.op = "crop" ->
                       \* the cw-wide rectangle at (x, y) of the sw-wide image src
                       ((raw.y + k \div (raw.cw * 4)) * raw.sw + raw.x) * 4
                         + (k % (raw.cw * 4))
                  [] raw.op = "encode_tile" ->
                       \* tile.extend_from_slice(&raw[row_start..row_end])
                       EncodeRowStart(raw.w, raw.tx, raw.ty, k \div (raw.tw * 4))
                         + (k % (raw.tw * 4))
                  [] raw.op = "decode_window" ->
                       \* row_start = ((oy + y) * w * 4 + ox * 4)
                       (raw.oy + k \div (raw.tw * 4)) * raw.w * 4 + raw.ox * 4
                         + (k % (raw.tw * 4)))

\* image::imageops::crop_imm(img, x, y, cw, ch).to_image(): the rectangle is
\* clipped to the image.
CropImm(img, x, y, cw, ch) ==
  LET x0 == Min(x, img.w)
      y0 == Min(y, img.h)
      cw2 == Min(cw, img.w - x0)
      ch2 == Min(ch, img.h - y0)
  IN  [ w |-> cw2, h |-> ch2,
        raw |-> [op |-> "crop", src |-> img.raw, sw |-> img.w, x |-> x0, y |-> y0,
                 cw |-> cw2] ]

EnsureEvenDimensions(img) ==
  LET w_even == EvenFloor(img.w)
      h_even == EvenFloor(img.h)
  IN  IF w_even = img.w /\ h_even = img.h THEN img
      ELSE CropImm(img, 0, 0, Max(w_even, 2), Max(h_even, 2))

\* embed_in_tile(raw, tw, th, to_embed)
EmbedInTile(raw, tw, th, to_embed) ==
  IF ~EmbedFits(tw, th, to_embed) THEN Err("Tile too small")
  ELSE Ok([op |-> "embed", src |-> raw, tw |-> tw, th |-> th, to_embed |-> to_embed])

\* MAGIC, the big-endian length and the payload, as encode assembles them
ToEmbed(p) == MAGIC \o Be32(Len(p)) \o p

\* Mutant of Encode: without the whole-raster path, an error when no grid
\* tile holds the frame.
EncodeTilesOnly(cover_img, p) ==
  LET img == EnsureEvenDimensions(cover_img)
      w == img.w
      h == img.h
      to_embed == ToEmbed(p)
      bits_needed == Len(to_embed) * 8
      embedded_any ==
        \E ty \in TileOrigins(h) : \E tx \in TileOrigins(w) :
          /\ TileHasCapacity(w, h, tx, ty, bits_needed)
          /\ EmbedFits(TileExtent(w, tx), TileExtent(h, ty), to_embed)
  IN  IF w < 2 \/ h < 2
      THEN Err("Image must be at least 2x2 after cropping to even dimensions")
      ELSE IF embedded_any
      THEN Ok([w |-> w, h |-> h,
               raw |-> [op |-> "out_img", src |-> img.raw, w |-> w, h |-> h,
                        to_embed |-> to_embed]])
      ELSE Err("Payload too large")

\* stego::encode on the decoded, upright cover.  The value is the raster
\* handed to the PNG encoder; PNG is lossless, so it is also the raster a
\* decoder loads from the written file.
Encode(cover_img, p) ==
  LET img == EnsureEvenDimensions(cover_img)
      w == img.w
      h == img.h
      to_embed == ToEmbed(p)
      bits_needed == Len(to_embed) * 8
      embedded_any ==
        \E ty \in TileOrigins(h) : \E tx \in TileOrigins(w) :
          /\ TileHasCapacity(w, h, tx, ty, bits_needed)
          /\ EmbedFits(TileExtent(w, tx), TileExtent(h, ty), to_embed)
  IN  IF w < 2 \/ h < 2
      THEN Err("Image must be at least 2x2 after cropping to even dimensions")
      ELSE IF embedded_any
      THEN Ok([w |-> w, h |-> h,
               raw |-> [op |-> "out_img", src |-> img.raw, w |-> w, h |-> h,
                        to_embed |-> to_embed]])
      ELSE IF bits_needed > (w \div 2) * (h \div 2) * 3 THEN Err("Payload too large")
      ELSE LET whole == EmbedInTile(img.raw, w, h, to_embed)
           IN  IF whole.ok THEN Ok([w |-> w, h |-> h, raw |-> whole.val]) ELSE whole

\* bits[k] in decode_from_tile: (lh[block_idx] & 1) of channel k / blocks,
\* block k % blocks, the blocks of a channel in row-major order
TileBit(raw, tw, th, k) ==
  LET half_w == tw \div 2
      blocks == half_w * (th \div 2)
  IN  Haar2dForward(BlockBytes(raw, tw, (k % blocks) \div half_w, (k % blocks) % half_w,
                               k \div blocks)).lh % 2

\* bits_to_bytes(&bits[from..from + 8]): b = (b << 1) | bit over the chunk
TileByte(raw, tw, th, from) ==
  LET b[n \in 0..8] == IF n = 0 THEN 0 ELSE b[n - 1] * 2 + TileBit(raw, tw, th, from + n - 1)
  IN  b[8]

\* bits_to_bytes of the n * 8 bits that start at bit from
TileBytes(raw, tw, th, from, n) == [i \in 1..n |-> TileByte(raw, tw, th, from + (i - 1) * 8)]

\* The body of decode_from_tile's search loop returns at a start whose next
\* MAGIC_LEN + LENGTH_BYTES bytes are hdr: they open with MAGIC and
\* payload_end = start + 88 + payload_len * 8 is at most bits.len().
HeaderAccepted(hdr, start, total_bits) ==
  /\ \A i \in 1..MAGIC_LEN : hdr[i] = MAGIC[i]
  /\ ~U32Exceeds(U32Halves(<<hdr[MAGIC_LEN + 1], hdr[MAGIC_LEN + 2], hdr[MAGIC_LEN + 3],
                             hdr[MAGIC_LEN + 4]>>),
                 (total_bits - (start + (MAGIC_LEN + LENGTH_BYTES) * 8)) \div 8)

FrameAt(raw, tw, th, start) ==
  HeaderAccepted(TileBytes(raw, tw, th, start, MAGIC_LEN + LENGTH_BYTES), start,
                 (tw \div 2) * (th \div 2) * 3)

\* The first start in lo..hi, in loop order, that FrameAt accepts; -1 if none.
\* (The interval is halved so that long searches stay shallow.)
RECURSIVE FirstFrame(_, _, _, _, _)
FirstFrame(raw, tw, th, lo, hi) ==
  IF lo > hi THEN -1
  ELSE IF lo = hi THEN (IF FrameAt(raw, tw, th, lo) THEN lo ELSE -1)
  ELSE LET mid == (lo + hi) \div 2
           first == FirstFrame(raw, tw, th, lo, mid)
       IN  IF first # -1 THEN first ELSE FirstFrame(raw, tw, th, mid + 1, hi)

\* The exclusive upper bound of decode_from_tile's search:
\* for start in 0..bits.len().saturating_sub(88)
SearchEnd(total_bits) == Max(total_bits - 88, 0)

\* What decode_from_tile returns once its search loop has ended at start
\* (-1: the loop ran out): the payload_len bytes after the length field.
ExtractAt(raw, tw, th, start) ==
  IF start = -1 THEN Err("Magic not found in tile")
  ELSE Ok(TileBytes(raw, tw, th, start + (MAGIC_LEN + LENGTH_BYTES) * 8,
                    U32Value(U32Halves(TileBytes(raw, tw, th, start + MAGIC_LEN * 8,
                                                 LENGTH_BYTES)))))

\* decode_from_tile(raw, tw, th)
DecodeFromTile(raw, tw, th) ==
  IF tw < 2 \/ th < 2 THEN Err("Tile too small")
  ELSE IF (tw \div 2) * (th \div 2) * 3 < 88 THEN Err("Tile too small")
  ELSE ExtractAt(raw, tw, th,
                 FirstFrame(raw, tw, th, 0, SearchEnd((tw \div 2) * (th \div 2) * 3) - 1))

\* if let Ok(p) = first { return Ok(p) } ... second
OrElse(first, second) == IF first.ok THEN first ELSE second

\* The sliding windows from the i-th on (0-based; oy is the outer loop and ox
\* the inner one, both in steps of DECODE_STEP up to the last full window):
\* the first successful extract.
RECURSIVE DecodeWindows(_, _, _, _)
DecodeWindows(raw, w, h, i) ==
  LET nx == (w - TILE_SIZE) \div DECODE_STEP + 1
      ny == (h - TILE_SIZE) \div DECODE_STEP + 1
      ox == (i % nx) * DECODE_STEP
      oy == (i \div nx) * DECODE_STEP
      tw_even == EvenFloor(Min(TILE_SIZE, w - ox))
      th_even == EvenFloor(Min(TILE_SIZE, h - oy))
  IN  IF i >= nx * ny THEN Err("Not a Stegstr image (magic not found)")
      ELSE OrElse(DecodeFromTile([op |-> "decode_window", src |-> raw, w |-> w,
                                  ox |-> ox, oy |-> oy, tw |-> tw_even],
                                 tw_even, th_even),
                  DecodeWindows(raw, w, h, i + 1))

\* stego::decode on the decoded, upright image: the whole raster as one tile,
\* then the sliding windows.
Decode(file_img) ==
  LET img == EnsureEvenDimensions(file_img)
      w == img.w
      h == img.h
  IN  IF w < 2 \/ h < 2 THEN Err("Image too small or dimensions not even")
      ELSE OrElse(DecodeFromTile(img.raw, w, h),
                  IF w >= TILE_SIZE /\ h >= TILE_SIZE THEN DecodeWindows(img.raw, w, h, 0)
                  ELSE Err("Not a Stegstr image (magic not found)"))

(***************************************************************************)
(* SpecDwt: encode a payload into a cover, optionally crop the encoded     *)
(* image, decode.  The carrier is the image [w, h, raw] at hand.           *)
(***************************************************************************)
Gradient(w, h) == [kind |-> "gradient", v |-> 0, w |-> w, h |-> h]

Flat(v, w, h) == [kind |-> "flat", v |-> v, w |-> w, h |-> h]

CoverImage(c) == [w |-> c.w, h |-> c.h, raw |-> [op |-> "cover", c |-> c]]

DwtCovers ==
  { Gradient(256, 256), Gradient(512, 256), Flat(128, 256, 256), Flat(128, 257, 257),
    Flat(128, 512, 256), Flat(128, 640, 256), Flat(128, 256, 512),
    Flat(128, 16, 16), Flat(0, 16, 16), Flat(255, 16, 16), Flat(128, 8, 8),
    Flat(128, 1, 1) }

\* "", "A", "Hello", "Hello" 0x80, "Hello, Stegstr!" (the test's payload)
DwtPayloads ==
  { <<>>, <<65>>, <<72, 101, 108, 108, 111>>, <<72, 101, 108, 108, 111, 128>>,
    <<72, 101, 108, 108, 111, 44, 32, 83, 116, 101, 103, 115, 116, 114, 33>> }

\* Crop rectangles <<ox, oy, cw, ch>>: single grid tiles, and wider crops at
\* origins off the tile grid.
DwtCrops ==
  { <<0, 0, 256, 256>>, <<256, 0, 256, 256>>, <<0, 256, 256, 256>>,
    <<128, 0, 512, 256>>, <<2, 0, 510, 256>> }

InitDwt ==
  /\ pc = "cover"
  /\ payload \in DwtPayloads
  /\ carrier \in {CoverImage(c) : c \in DwtCovers}
  /\ result = NotRun

\* stego::encode(cover, payload): on success the carrier becomes the encoded
\* image (result then only records the success).
DwtEncode ==
  /\ pc = "cover"
  /\ LET r == Encode(carrier, payload)
     IN  \/ /\ r.ok
            /\ carrier' = r.val
            /\ pc' = "encoded"
            /\ result' = Ok(<<>>)
         \/ /\ ~r.ok
            /\ pc' = "encode_failed"
            /\ result' = Err(r.err)
            /\ UNCHANGED carrier
  /\ UNCHANGED payload

\* The encoded image is cropped to a rectangle inside it before it is decoded.
DwtCrop ==
  /\ pc = "encoded"
  /\ \E r \in DwtCrops :
       /\ r[1] + r[3] <= carrier.w
       /\ r[2] + r[4] <= carrier.h
       /\ carrier' = CropImm(carrier, r[1], r[2], r[3], r[4])
  /\ pc' = "cropped"
  /\ UNCHANGED <<payload, result>>

\* stego::decode(image)
DwtDecode ==
  /\ pc \in {"encoded", "cropped"}
  /\ result' = Decode(carrier)
  /\ pc' = IF pc = "encoded" THEN "decoded" ELSE "crop_decoded"
  /\ UNCHANGED <<payload, carrier>>

NextDwt == DwtEncode \/ DwtCrop \/ DwtDecode

SpecDwt == InitDwt /\ [][NextDwt]_vars

\* The image stego::encode returned, whether or not the carrier has since
\* been cropped, and the crop rectangle when it has.
EncodedRaster == IF carrier.raw.op = "crop" THEN carrier.raw.src ELSE carrier.raw

CropX == carrier.raw.x

CropY == carrier.raw.y

\* The grid tile at (tx, ty) of the encoded image is a full 256x256 tile that
\* received the payload, and the crop rectangle contains all of it.
CropKeepsPayloadTile(tx, ty) ==
  /\ tx % TILE_SIZE = 0 /\ ty % TILE_SIZE = 0
  /\ tx + TILE_SIZE <= EncodedRaster.w /\ ty + TILE_SIZE <= EncodedRaster.h
  /\ TileHasCapacity(EncodedRaster.w, EncodedRaster.h, tx, ty, Len(ToEmbed(payload)) * 8)
  /\ CropX <= tx /\ tx + TILE_SIZE <= CropX + carrier.w
  /\ CropY <= ty /\ ty + TILE_SIZE <= CropY + carrier.h

\* C1: whenever encode succeeded on a cover with W >= 256 and H >= 256, decode
\* of the encoded image returns exactly the payload.
C1_DwtRoundTrip ==
  (pc = "decoded" /\ carrier.w >= TILE_SIZE /\ carrier.h >= TILE_SIZE)
    => result = Ok(payload)

\* C2: an encoded image of at least 256x256 cropped to a 256x256 rectangle
\* whose origin is a multiple of 256 on both axes decodes to the payload.
C2_AlignedCropSurvival ==
  (/\ pc = "crop_decoded"
   /\ EncodedRaster.w >= TILE_SIZE /\ EncodedRaster.h >= TILE_SIZE
   /\ carrier.w = TILE_SIZE /\ carrier.h = TILE_SIZE
   /\ CropX % TILE_SIZE = 0 /\ CropY % TILE_SIZE = 0)
    => result = Ok(payload)

\* C3: a crop, at any origin and of any size, that still contains a complete
\* 256x256 grid tile that received the payload decodes to the payload.
C3_GeneralCropSurvival ==
  (/\ pc = "crop_decoded"
   /\ \E tx \in TileOrigins(EncodedRaster.w) : \E ty \in TileOrigins(EncodedRaster.h) :
        CropKeepsPayloadTile(tx, ty))
    => result = Ok(payload)

(***************************************************************************)
(* Dot-offset codec: stego_dot.rs                                          *)
(*                                                                         *)
(* An RGB image is a record [w, h, cover, dots]: cover names the pixels    *)
(* the image was loaded with (CoverPixel) and dots maps the origin of each *)
(* cell that encode_offset has written to the index of the offset it left *)
(* black, the other three pixels of the cell being white.                  *)
(***************************************************************************)
STEP == 6

OFFSET == 2

REPEAT == 3

\* SHUFFLE_SEED as the two 16-bit halves <<hi, lo>> of a u32
SHUFFLE_SEED == <<0, 42>>

\* let offsets = [(0, 0), (0, 1), (1, 0), (1, 1)], indexed from 0
Offsets == [i \in 0..3 |-> <<i \div 2, i % 2>>]

White == <<255, 255, 255>>

Black == <<0, 0, 0>>

\* bytes_to_bits(data): each byte most significant bit first
BytesToBits(data) ==
  [k \in 1..(Len(data) * 8) |-> (data[(k - 1) \div 8 + 1] \div (2 ^ (7 - ((k - 1) % 8)))) % 2]

\* The byte bits_to_bytes makes of the chunk of at most 8 bits that starts
\* after bit from of the first n bits: byte |= (bit & 1) << (7 - i)
ChunkByte(bits, n, from) ==
  LET b[i \in 0..8] ==
        IF i = 0 THEN 0
        ELSE b[i - 1] + (IF from + i <= n THEN (bits[from + i] % 2) * (2 ^ (8 - i)) ELSE 0)
  IN  b[8]

\* bits_to_bytes(&bits[..n])
BitsToBytes(bits, n) == [c \in 1..((n + 7) \div 8) |-> ChunkByte(bits, n, (c - 1) * 8)]

\* The cells cell_positions pushes from row y on: x = OFFSET, OFFSET + STEP, ..
\* while x <= max_x, then the rows below while y <= max_y.
RECURSIVE CellRows(_, _, _)
CellRows(y, max_x, max_y) ==
  IF y > max_y THEN <<>>
  ELSE [i \in 1..((max_x - OFFSET) \div STEP + 1) |-> <<OFFSET + (i - 1) * STEP, y>>]
         \o CellRows(y + STEP, max_x, max_y)

\* cell_positions(width, height)
CellPositions(width, height) ==
  IF width < OFFSET + 2 \/ height < OFFSET + 2 THEN <<>>
  ELSE CellRows(OFFSET, width - 2, height - 2)

\* seed.wrapping_mul(1_664_525).wrapping_add(1_013_904_223) on a u32 held as
\* 16-bit halves: 1664525 = 25 * 2^16 + 26125, 1013904223 = 15470 * 2^16 + 62303
LcgNext(seed) ==
  LET low == seed[2] * 26125 + 62303
      high == seed[1] * 26125 + seed[2] * 25 + 15470 + low \div 65536
  IN  <<high % 65536, low % 65536>>

\* (seed as usize) % m, for m small enough that m * m fits a machine word
SeedMod(seed, m) == ((seed[1] % m) * (65536 % m) + seed[2]) % m

\* Mutant of Swap: positions[i] = positions[j], without the exchange.
SwapOverwrite(positions, i, j) == [positions EXCEPT ![i + 1] = positions[j + 1]]

\* positions.swap(i, j), i and j counted from 0
Swap(positions, i, j) ==
  [positions EXCEPT ![i + 1] = positions[j + 1], ![j + 1] = positions[i + 1]]

\* One iteration of shuffle_positions' loop at index i
ShuffleStep(st, i) ==
  [seed |-> LcgNext(st.seed),
   positions |-> Swap(st.positions, i, SeedMod(LcgNext(st.seed), i + 1))]

\* The iterations for i = hi, hi - 1, .. lo, in that order; every i is an
\* index of the vector.  (The range is halved, and the state reached so far
\* is looked at before the halves are, so that long loops stay shallow.)
RECURSIVE ShuffleLoop(_, _, _)
ShuffleLoop(st, hi, lo) ==
  IF hi < lo \/ hi >= Len(st.positions) THEN st
  ELSE IF hi = lo THEN ShuffleStep(st, hi)
  ELSE ShuffleLoop(ShuffleLoop(st, hi, (hi + lo) \div 2 + 1), (hi + lo) \div 2, lo)

\* shuffle_positions(positions)
ShufflePositions(positions) ==
  IF Len(positions) <= 1 THEN positions
  ELSE ShuffleLoop([seed |-> SHUFFLE_SEED, positions |-> positions],
                   Len(positions) - 1, 1).positions

\* Mutant of MaxPayloadBytesForImage: the 2-byte codeword length left out of
\* the overhead.
MaxPayloadBytesNoHeader(img) ==
  LET capacity_bits == (Len(CellPositions(img.w, img.h)) * 2) \div REPEAT
      overhead_bytes == MAGIC_LEN + LENGTH_BYTES
  IN  Max(capacity_bits \div 8 - overhead_bytes, 0)
\* max_payload_bytes_for_image(img)
MaxPayloadBytesForImage(img) ==
  LET capacity_bits == (Len(CellPositions(img.w, img.h)) * 2) \div REPEAT
      overhead_bytes == 2 + MAGIC_LEN + LENGTH_BYTES
  IN  Max(capacity_bits \div 8 - overhead_bytes, 0)


\* The pixel (x, y) a cover was loaded with: "flat" has every channel c.v,
\* "pattern" varies from pixel to pixel.
CoverPixel(c, x, y) ==
  IF c.kind = "flat" THEN <<c.v, c.v, c.v>>
  ELSE <<(x * 7 + y * 13) % 256, (x * 3 + y * 5 + 1) % 256, (x + y * 2) % 256>>

\* img.get_pixel(x, y): a pixel altered after encoding has the value it was
\* given.  Cells are STEP = 6 pixels apart and 2 pixels wide, so at most one
\* written cell holds the pixel, as offset i of that cell.
GetPixel(img, x, y) ==
  LET hits == {i \in 0..3 : <<x - Offsets[i][1], y - Offsets[i][2]>> \in DOMAIN img.dots}
      at == CHOOSE i \in hits : TRUE
  IN  IF <<x, y>> \in DOMAIN img.altered THEN img.altered[<<x, y>>]
      ELSE IF hits = {} THEN CoverPixel(img.cover, x, y)
      ELSE IF img.dots[<<x - Offsets[at][1], y - Offsets[at][2]>>] = at THEN Black
      ELSE White

\* bits.chunks(2).map(|c| [c[0] or 0, c[1] or 0])
Symbols(bits) ==
  [n \in 1..((Len(bits) + 1) \div 2) |->
     <<bits[2 * n - 1], IF 2 * n <= Len(bits) THEN bits[2 * n] ELSE 0>>]

\* Mutant of SymbolIndex: the two bits of a symbol taken in the other order.
SymbolIndexSwapped(sym) == (sym[2] % 2) * 2 + (sym[1] % 2)

\* let idx = ((sym[0] & 1) << 1) | (sym[1] & 1)
SymbolIndex(sym) == (sym[1] % 2) * 2 + (sym[2] % 2)

\* img.dots once encode_offset's loop has painted the first needed_cells
\* cells of positions, REPEAT cells a symbol: for a cell painted more than
\* once the last painting stands.
PaintedDots(dots, positions, symbols, needed_cells) ==
  LET painted == {positions[k] : k \in 1..needed_cells}
      last(c) == CHOOSE k \in 1..needed_cells :
                   positions[k] = c /\ \A k2 \in (k + 1)..needed_cells : positions[k2] # c
  IN  [c \in painted \cup DOMAIN dots |->
         IF c \in painted THEN SymbolIndex(symbols[(last(c) - 1) \div REPEAT + 1])
         ELSE dots[c]]

\* encode_offset(img, bits); the two errors differ only in the numbers their
\* messages quote.
EncodeOffset(img, bits) ==
  LET positions == ShufflePositions(CellPositions(img.w, img.h))
      capacity_bits == (Len(positions) * 2) \div REPEAT
      symbols == Symbols(bits)
      needed_cells == Len(symbols) * REPEAT
  IN  IF Len(bits) > capacity_bits THEN Err("Image too small")
      ELSE IF Len(positions) < needed_cells THEN Err("Image too small")
      ELSE Ok([img EXCEPT !.dots = PaintedDots(img.dots, positions, symbols, needed_cells)])

\* decode_offset's symbol of the cell at (x, y): the first offset whose pixel
\* has the least r + g + b
CellSymbol(img, x, y) ==
  LET v == [i \in 0..3 |->
              LET p == GetPixel(img, x + Offsets[i][1], y + Offsets[i][2])
              IN  p[1] + p[2] + p[3]]
  IN  CHOOSE i \in 0..3 : \A j \in 0..3 : v[i] < v[j] \/ (v[i] = v[j] /\ i <= j)

\* Mutant of GroupSymbol: the symbol of the group's first cell, without a
\* vote.
GroupSymbolFirstCell(img, positions, gi) ==
  CellSymbol(img, positions[gi * REPEAT + 1][1], positions[gi * REPEAT + 1][2])

\* max_idx of group gi (from 0): the first symbol value with the most votes
\* among the group's REPEAT cells
GroupSymbol(img, positions, gi) ==
  LET sym == [r \in 0..(REPEAT - 1) |->
                CellSymbol(img, positions[gi * REPEAT + r + 1][1],
                           positions[gi * REPEAT + r + 1][2])]
      counts == [i \in 0..3 |-> Cardinality({r \in 0..(REPEAT - 1) : sym[r] = i})]
  IN  CHOOSE i \in 0..3 :
        \A j \in 0..3 : counts[i] > counts[j] \/ (counts[i] = counts[j] /\ i <= j)

\* bits[k - 1] in decode_offset: (max_idx >> 1) & 1, then max_idx & 1
DecodedBit(img, positions, k) ==
  IF k % 2 = 1 THEN (GroupSymbol(img, positions, (k - 1) \div 2) \div 2) % 2
  ELSE GroupSymbol(img, positions, (k - 1) \div 2) % 2

\* What decode_offset returns once it holds the nbits decoded bits.  (The
\* "Invalid header" and "Payload decode failed" tests cannot fail.)
DecodeBits(bits, nbits) ==
  LET header == BitsToBytes(bits, 16)
      codeword_len == header[1] * 256 + header[2]
      total_bits == (2 + codeword_len) * 8
  IN  IF nbits < 16 THEN Err("Insufficient bits")
      ELSE IF nbits < total_bits THEN Err("Insufficient payload bits")
      ELSE UnwrapPayload(Slice(BitsToBytes(bits, total_bits), 2, 2 + codeword_len))

\* decode_offset(img), which is stego_dot::decode on the loaded image
DecodeOffset(img) ==
  LET positions == ShufflePositions(CellPositions(img.w, img.h))
      nbits == (Len(positions) \div REPEAT) * 2
  IN  IF Len(positions) = 0 THEN Err("Image too small for dot decode")
      ELSE DecodeBits([k \in 1..nbits |-> DecodedBit(img, positions, k)], nbits)

\* stego_dot::encode on the loaded cover.  The value is the raster handed to
\* the PNG encoder (lossless), which is the raster a decoder loads.
EncodeDot(img, p) ==
  LET wrapped == WrapPayload(p)
      codeword_len == Len(wrapped)
  IN  IF codeword_len > 65535 THEN Err("Payload too large for dot method")
      ELSE EncodeOffset(img, BytesToBits(<<codeword_len \div 256, codeword_len % 256>>
                                           \o wrapped))

(***************************************************************************)
(* SpecDot: on a cover, measure its capacity, shuffle its cells, or encode *)
(* the payload into it and decode the encoded image.                       *)
(***************************************************************************)
MaxStripCells == 6

\* Image sizes <<w, h>>: none or one cell, strips of 1..MaxStripCells cells
\* in a row or in a column, and squares of 169, 289 and 10000 cells.
DotSizes ==
  {<<3, 3>>, <<76, 76>>, <<100, 100>>, <<600, 600>>}
    \cup {<<4 + STEP * (n - 1), 4>> : n \in 1..MaxStripCells}
    \cup {<<4, 4 + STEP * (n - 1)>> : n \in 1..MaxStripCells}

DotCovers ==
  {[w |-> sz[1], h |-> sz[2], cover |-> c, dots |-> <<>>, altered |-> <<>>] :
     sz \in DotSizes,
     c \in {[kind |-> "flat", v |-> 0], [kind |-> "flat", v |-> 255],
            [kind |-> "pattern", v |-> 0]}}

\* "", "A", "Hi", "Hello, World"
DotPayloads ==
  { <<>>, <<65>>, <<72, 105>>,
    <<72, 101, 108, 108, 111, 44, 32, 87, 111, 114, 108, 100>> }

InitDot ==
  /\ pc = "cover"
  /\ payload \in DotPayloads
  /\ carrier \in DotCovers
  /\ result = NotRun

\* stego_dot::max_payload_bytes(cover)
DotCapacity ==
  /\ pc = "cover"
  /\ result' = Ok(MaxPayloadBytesForImage(carrier))
  /\ pc' = "measured"
  /\ UNCHANGED <<payload, carrier>>

\* shuffle_positions(cell_positions(w, h)), as encode_offset and
\* decode_offset both call it
DotShuffle ==
  /\ pc = "cover"
  /\ result' = Ok(ShufflePositions(CellPositions(carrier.w, carrier.h)))
  /\ pc' = "shuffled"
  /\ UNCHANGED <<payload, carrier>>

\* stego_dot::encode(cover, payload): on success the carrier becomes the
\* encoded image.
DotEncode ==
  /\ pc = "cover"
  /\ LET r == EncodeDot(carrier, payload)
     IN  \/ /\ r.ok
            /\ carrier' = r.val
            /\ pc' = "encoded"
            /\ result' = Ok(<<>>)
         \/ /\ ~r.ok
            /\ pc' = "encode_failed"
            /\ result' = Err(r.err)
            /\ UNCHANGED carrier
  /\ UNCHANGED payload

\* stego_dot::decode(encoded image)
DotDecode ==
  /\ pc = "encoded"
  /\ result' = DecodeOffset(carrier)
  /\ pc' = "decoded"
  /\ UNCHANGED <<payload, carrier>>

NextDot == DotCapacity \/ DotShuffle \/ DotEncode \/ DotDecode

SpecDot == InitDot /\ [][NextDot]_vars

\* C6: whenever stego_dot::encode succeeded, stego_dot::decode of the encoded
\* image (same dimensions, pixels untouched) returns exactly the payload.
C6_DotRoundTrip == pc = "decoded" => result = Ok(payload)

C6_Witness ==
  /\ pc = "decoded"
  /\ carrier.cover.kind = "pattern"
  /\ Len(payload) = 12
  /\ result = Ok(payload)

\* C7 as stated: a 600x600 image has 10000 cells and max_payload_bytes
\* returns 819.
C7_Capacity600Is819 ==
  (pc = "measured" /\ carrier.w = 600 /\ carrier.h = 600)
    => (Len(CellPositions(carrier.w, carrier.h)) = 10000 /\ result = Ok(819))

\* C7, amended: a 600x600 image has 10000 cells and max_payload_bytes
\* returns 820 = (10000 * 2 / 3) / 8 - 13 in integer division.
C7_Capacity600Is820 ==
  (pc = "measured" /\ carrier.w = 600 /\ carrier.h = 600)
    => (Len(CellPositions(carrier.w, carrier.h)) = 10000 /\ result = Ok(820))

C7_Witness == pc = "measured" /\ carrier.w = 600 /\ carrier.h = 600 /\ result.ok

\* The sequence 1, 2, .., n
Indices(n) == <<>> \o [k \in 1..n |-> k]

\* C8: shuffle_positions returns every input cell exactly once, and where each
\* cell lands depends on the number of cells only: the output is the input
\* read in the order in which the same shuffle leaves 1..N.
C8_ShufflePermutation ==
  pc = "shuffled" =>
    LET cells == CellPositions(carrier.w, carrier.h)
        n == Len(cells)
        order == ShufflePositions(Indices(n))
    IN  /\ Len(result.val) = n
        /\ {result.val[k] : k \in 1..n} = {cells[k] : k \in 1..n}
        /\ Cardinality({result.val[k] : k \in 1..n}) = n
        /\ \A k \in 1..n : result.val[k] = cells[order[k]]

C8_Witness ==
  /\ pc = "shuffled"
  /\ Len(result.val) = 10000
  /\ result.val[1] = <<206, 176>>
  /\ result.val[10000] = <<440, 254>>

(***************************************************************************)
(* App envelope: stego_crypto.rs                                           *)
(*                                                                         *)
(* AES-256-GCM is the aes_gcm crate's, not this program's.  It is modelled *)
(* by a cipher of the same shape: a keystream that depends on key, nonce   *)
(* and position is added to the plaintext, and a TAG_LEN-byte tag over     *)
(* key, nonce and ciphertext follows; decryption checks the tag first.     *)
(***************************************************************************)
\* b"STEGSTR1"
STEGSTR_MAGIC == <<83, 84, 69, 71, 83, 84, 82, 49>>

VERSION == 1

IV_LEN == 12

TAG_LEN == 16

\* app_key(): SHA-256 of the salt, a fixed byte string (here its stand-in)
AppKey == <<173, 62, 9, 240>>

SumBytes(b) ==
  LET acc[n \in 0..Len(b)] == IF n = 0 THEN 0 ELSE (acc[n - 1] + b[n]) % 256
  IN  acc[Len(b)]

\* Keystream byte i (from 1) under key and nonce
AeadKeystream(key, nonce, i) ==
  (key[((i - 1) % Len(key)) + 1] + nonce[((i - 1) % Len(nonce)) + 1] * 3 + i * 7) % 256

\* The tag over key, nonce and the ciphertext body
AeadTag(key, nonce, body) ==
  [j \in 1..TAG_LEN |-> (SumBytes(key) + SumBytes(nonce) * 5 + SumBytes(body) + j * 11) % 256]

\* cipher.encrypt(nonce, plaintext): the ciphertext body followed by the tag
AeadEncrypt(key, nonce, plaintext) ==
  LET body == [i \in 1..Len(plaintext) |->
                 (plaintext[i] + AeadKeystream(key, nonce, i)) % 256]
  IN  body \o AeadTag(key, nonce, body)

\* cipher.decrypt(nonce, ciphertext): an error unless the tag is the body's
AeadDecrypt(key, nonce, ciphertext) ==
  LET n == Len(ciphertext) - TAG_LEN
      body == SubSeq(ciphertext, 1, n)
  IN  IF n < 0 THEN Err("aead::Error")
      ELSE IF SubSeq(ciphertext, n + 1, n + TAG_LEN) # AeadTag(key, nonce, body)
      THEN Err("aead::Error")
      ELSE Ok([i \in 1..n |-> (body[i] - AeadKeystream(key, nonce, i)) % 256])

\* b is a continuation byte 10xxxxxx
IsCont(b) == b >= 128 /\ b <= 191

\* The number of bytes of the UTF-8 sequence that starts at b[i]; 0 if no
\* well-formed sequence starts there.
Utf8SeqLen(b, i) ==
  LET b1 == b[i]
      lo2 == IF b1 = 224 THEN 160 ELSE IF b1 = 240 THEN 144 ELSE 128
      hi2 == IF b1 = 237 THEN 159 ELSE IF b1 = 244 THEN 143 ELSE 191
      width == IF b1 <= 127 THEN 1
               ELSE IF b1 >= 194 /\ b1 <= 223 THEN 2
               ELSE IF b1 >= 224 /\ b1 <= 239 THEN 3
               ELSE IF b1 >= 240 /\ b1 <= 244 THEN 4
               ELSE 0
  IN  IF width = 0 \/ i + width - 1 > Len(b) THEN 0
      ELSE IF width >= 2 /\ ~(b[i + 1] >= lo2 /\ b[i + 1] <= hi2) THEN 0
      ELSE IF \E k \in 2..(width - 1) : ~IsCont(b[i + k]) THEN 0
      ELSE width

\* String::from_utf8 accepts the bytes from index i on
RECURSIVE IsUtf8From(_, _)
IsUtf8From(b, i) ==
  IF i > Len(b) THEN TRUE
  ELSE IF Utf8SeqLen(b, i) = 0 THEN FALSE
  ELSE IsUtf8From(b, i + Utf8SeqLen(b, i))

\* Mutant of EncryptApp: the version byte is not pushed.
EncryptAppNoVersion(plaintext, iv) ==
  Ok(STEGSTR_MAGIC \o iv \o AeadEncrypt(AppKey, iv, plaintext))

\* encrypt_app(plaintext), iv being the bytes thread_rng() delivered.  (The
\* cipher rejects only plaintexts beyond AES-GCM's length limit.)
EncryptApp(plaintext, iv) ==
  Ok(STEGSTR_MAGIC \o <<VERSION>> \o iv \o AeadEncrypt(AppKey, iv, plaintext))

\* Mutant of DecryptApp: the version byte is not checked.
DecryptAppAnyVersion(encrypted) ==
  LET iv_start == Len(STEGSTR_MAGIC) + 1
      iv == Slice(encrypted, iv_start, iv_start + IV_LEN)
      dec == AeadDecrypt(AppKey, iv, Slice(encrypted, iv_start + IV_LEN, Len(encrypted)))
  IN  IF Len(encrypted) < Len(STEGSTR_MAGIC) + 1 + IV_LEN + TAG_LEN
      THEN Err("Payload too short")
      ELSE IF Slice(encrypted, 0, Len(STEGSTR_MAGIC)) # STEGSTR_MAGIC
      THEN Err("Invalid Stegstr encrypted payload")
      ELSE IF ~dec.ok THEN dec
      ELSE IF ~IsUtf8From(dec.val, 1) THEN Err("invalid utf-8 sequence")
      ELSE dec

\* decrypt_app(encrypted)
DecryptApp(encrypted) ==
  LET iv_start == Len(STEGSTR_MAGIC) + 1
      iv == Slice(encrypted, iv_start, iv_start + IV_LEN)
      dec == AeadDecrypt(AppKey, iv, Slice(encrypted, iv_start + IV_LEN, Len(encrypted)))
  IN  IF Len(encrypted) < Len(STEGSTR_MAGIC) + 1 + IV_LEN + TAG_LEN
      THEN Err("Payload too short")
      ELSE IF Slice(encrypted, 0, Len(STEGSTR_MAGIC)) # STEGSTR_MAGIC
      THEN Err("Invalid Stegstr encrypted payload")
      ELSE IF encrypted[Len(STEGSTR_MAGIC) + 1] # VERSION
      THEN Err("Unsupported encryption version")
      ELSE IF ~dec.ok THEN dec
      ELSE IF ~IsUtf8From(dec.val, 1) THEN Err("invalid utf-8 sequence")
      ELSE dec

\* Mutant of IsEncryptedPayload: only the 7 bytes "STEGSTR" are compared.
IsEncryptedPayloadShort(bytes) ==
  Len(bytes) >= Len(STEGSTR_MAGIC) /\ Slice(bytes, 0, MAGIC_LEN) = MAGIC

\* is_encrypted_payload(bytes)
IsEncryptedPayload(bytes) ==
  Len(bytes) >= Len(STEGSTR_MAGIC) /\ Slice(bytes, 0, Len(STEGSTR_MAGIC)) = STEGSTR_MAGIC

(***************************************************************************)
(* SpecEnv: a text is encrypted under a fresh IV and the envelope is       *)
(* decrypted or tested; byte strings of any origin are put to the same     *)
(* decrypt and test.                                                       *)
(***************************************************************************)
MaxChars == 2

\* "A", U+00E9, U+20AC and U+1F600 in UTF-8: sequences of 1, 2, 3 and 4 bytes
EnvChars == { <<65>>, <<195, 169>>, <<226, 130, 172>>, <<240, 159, 152, 128>> }

\* The strings of at most n characters
RECURSIVE CharStrings(_)
CharStrings(n) ==
  IF n = 0 THEN {<<>>}
  ELSE CharStrings(n - 1) \cup {t \o c : t \in CharStrings(n - 1), c \in EnvChars}

EnvTexts == CharStrings(MaxChars)

\* IVs the generator may deliver
EnvIvs ==
  {[i \in 1..IV_LEN |-> IF i = 1 THEN a ELSE b] : a \in {0, 255}, b \in {0, 255}}
    \cup {[i \in 1..IV_LEN |-> i]}

Zeros(n) == [i \in 1..n |-> 0]

\* Byte strings of any origin: prefixes of the magic, near misses of it,
\* envelope-sized strings with a good or bad header, and an envelope another
\* producer sealed over bytes that are not UTF-8.
EnvRawInputs ==
  {SubSeq(STEGSTR_MAGIC, 1, n) : n \in 0..Len(STEGSTR_MAGIC)}
    \cup { MAGIC \o <<50>>, <<88>> \o Tail(STEGSTR_MAGIC), STEGSTR_MAGIC \o <<0>> }
    \cup {h \o Zeros(n) : h \in { STEGSTR_MAGIC \o <<VERSION>>, STEGSTR_MAGIC \o <<2>>,
                                  MAGIC \o <<50, VERSION>>, MAGIC \o <<50, 2>> },
                          n \in {IV_LEN + TAG_LEN - 1, IV_LEN + TAG_LEN}}
    \cup {EncryptApp(b, Zeros(IV_LEN)).val : b \in { <<255>>, <<195>>, <<65, 128>> }}

InitEnv ==
  /\ result = NotRun
  /\ \/ pc = "plain" /\ payload \in EnvTexts /\ carrier = <<>>
     \/ pc = "raw" /\ payload = <<>> /\ carrier \in EnvRawInputs

\* encrypt_app(text): the IV is whatever the generator delivers
EnvEncrypt ==
  /\ pc = "plain"
  /\ \E iv \in EnvIvs : carrier' = EncryptApp(payload, iv).val
  /\ pc' = "encrypted"
  /\ result' = Ok(<<>>)
  /\ UNCHANGED payload

\* The envelope reaches decrypt_app with one byte altered or with its tail
\* cut off (a carrier that damaged it, or a party that edited it).
TamperDeltas == {1, 128}

EnvTamper ==
  /\ pc = "encrypted"
  /\ \/ \E i \in 1..Len(carrier), d \in TamperDeltas :
          carrier' = [carrier EXCEPT ![i] = (@ + d) % 256]
     \/ \E n \in {0, Len(STEGSTR_MAGIC) + IV_LEN + TAG_LEN} :
          carrier' = SubSeq(carrier, 1, n)
  /\ pc' = "tampered"
  /\ UNCHANGED <<payload, result>>

\* decrypt_app(bytes)
EnvDecrypt ==
  /\ pc \in {"encrypted", "raw", "tampered"}
  /\ result' = DecryptApp(carrier)
  /\ pc' = IF pc = "encrypted" THEN "decrypted" ELSE pc \o "_decrypted"
  /\ UNCHANGED <<payload, carrier>>

\* is_encrypted_payload(bytes)
EnvDetect ==
  /\ pc \in {"encrypted", "raw"}
  /\ result' = Ok(IsEncryptedPayload(carrier))
  /\ pc' = IF pc = "encrypted" THEN "detected" ELSE "raw_detected"
  /\ UNCHANGED <<payload, carrier>>

NextEnv == EnvEncrypt \/ EnvTamper \/ EnvDecrypt \/ EnvDetect

SpecEnv == InitEnv /\ [][NextEnv]_vars

\* C9: for every UTF-8 text and every IV, decrypt_app of encrypt_app's
\* envelope succeeds and returns the text.
C9_EnvelopeRoundTrip == pc = "decrypted" => result = Ok(payload)

C9_Witness ==
  /\ pc = "decrypted"
  /\ payload = <<195, 169, 226, 130, 172>>
  /\ carrier[Len(STEGSTR_MAGIC) + 2] = 255
  /\ Len(carrier) = Len(STEGSTR_MAGIC) + 1 + IV_LEN + Len(payload) + TAG_LEN
  /\ result = Ok(payload)

\* C10: is_encrypted_payload(b) is true exactly when b has at least 8 bytes
\* and its first 8 bytes are "STEGSTR1"; it is true of every envelope that
\* encrypt_app returns.
C10_EnvelopeDetection ==
  pc \in {"detected", "raw_detected"} =>
    /\ result.val <=> (/\ Len(carrier) >= 8
                       /\ \A i \in 1..8 : carrier[i] = STEGSTR_MAGIC[i])
    /\ pc = "detected" => result.val

C10_Witness ==
  /\ pc = "detected"
  /\ Len(payload) > 0
  /\ result.val

\* The failure the envelope rules give for bytes: the first that applies of
\* too short, bad magic, bad version and, for an altered envelope, failed
\* authentication; "" if none does.
EnvelopeFailure(bytes, altered) ==
  IF Len(bytes) < 8 + 1 + 12 + 16 THEN "Payload too short"
  ELSE IF SubSeq(bytes, 1, 8) # STEGSTR_MAGIC THEN "Invalid Stegstr encrypted payload"
  ELSE IF bytes[9] # 1 THEN "Unsupported encryption version"
  ELSE IF altered THEN "aead::Error"
  ELSE ""

\* C11: decrypt_app fails as too short below 8+1+12+16 = 37 bytes whatever
\* the content, otherwise as bad magic when the first 8 bytes are not
\* "STEGSTR1", otherwise as bad version when byte 8 is not 1, otherwise as
\* authentication failure when a byte of the IV or of the ciphertext and tag
\* of an encrypt_app envelope was altered; no plaintext in any of these.
C11_DecryptFailures ==
  pc \in {"tampered_decrypted", "raw_decrypted"} =>
    LET failure == EnvelopeFailure(carrier, pc = "tampered_decrypted")
    IN  failure # "" => result = Err(failure)

C11_Witness ==
  /\ pc = "tampered_decrypted"
  /\ Len(payload) > 0
  /\ Len(carrier) = Len(STEGSTR_MAGIC) + 1 + IV_LEN + Len(payload) + TAG_LEN
  /\ SubSeq(carrier, 1, Len(STEGSTR_MAGIC) + 1) = STEGSTR_MAGIC \o <<VERSION>>
  /\ result = Err("aead::Error")

(***************************************************************************)
(* Content normalisation: bin/stegstr_cli.rs                               *)
(***************************************************************************)
\* " Sent by Stegstr."
STEGSTR_SUFFIX ==
  <<32, 83, 101, 110, 116, 32, 98, 121, 32, 83, 116, 101, 103, 115, 116, 114, 46>>

MAX_NOTE_LENGTH == 5000

\* str::ends_with
EndsWith(s, suffix) ==
  Len(s) >= Len(suffix) /\ SubSeq(s, Len(s) - Len(suffix) + 1, Len(s)) = suffix

\* str::is_char_boundary(idx), idx counted from 0
IsCharBoundary(s, idx) ==
  idx = 0 \/ idx = Len(s) \/ (idx < Len(s) /\ ~IsCont(s[idx + 1]))

\* String::truncate(new_len): it panics when new_len is inside a character
Truncate(s, new_len) ==
  IF new_len > Len(s) THEN Ok(s)
  ELSE IF ~IsCharBoundary(s, new_len)
  THEN Err("panic: assertion failed: self.is_char_boundary(new_len)")
  ELSE Ok(SubSeq(s, 1, new_len))

\* Mutant of EnsureStegstrSuffix: the truncation comes before the append.
EnsureStegstrSuffixCutFirst(content) ==
  LET cut == IF Len(content) > MAX_NOTE_LENGTH
             THEN Truncate(content, MAX_NOTE_LENGTH) ELSE Ok(content)
  IN  IF ~cut.ok THEN cut
      ELSE IF EndsWith(cut.val, STEGSTR_SUFFIX) THEN cut
      ELSE Ok(cut.val \o STEGSTR_SUFFIX)

\* ensure_stegstr_suffix(content)
EnsureStegstrSuffix(content) ==
  LET s == IF EndsWith(content, STEGSTR_SUFFIX) THEN content
           ELSE content \o STEGSTR_SUFFIX
  IN  IF Len(s) > MAX_NOTE_LENGTH THEN Truncate(s, MAX_NOTE_LENGTH) ELSE Ok(s)

(***************************************************************************)
(* SpecNote: a message is normalised, and the normalised content is        *)
(* normalised once more.                                                   *)
(***************************************************************************)
\* Message lengths are taken up to NoteSlack bytes below MAX_NOTE_LENGTH and
\* NoteOver bytes above it.
NoteSlack == 20

NoteOver == 2

\* What a message ends in: nothing, a 2-, 3- or 4-byte character, the suffix,
\* a character and the suffix, a part of the suffix
NoteTails ==
  { <<>>, <<195, 169>>, <<226, 130, 172>>, <<240, 159, 152, 128>>,
    STEGSTR_SUFFIX, <<195, 169>> \o STEGSTR_SUFFIX, SubSeq(STEGSTR_SUFFIX, 1, 10) }

NotePads ==
  {0, 1} \cup ((MAX_NOTE_LENGTH - NoteSlack)..(MAX_NOTE_LENGTH + NoteOver))

\* n letters "a" and then the tail
NoteMessages == {[i \in 1..n |-> 97] \o tail : n \in NotePads, tail \in NoteTails}

InitNote ==
  /\ pc = "note"
  /\ payload \in NoteMessages
  /\ carrier = <<>>
  /\ result = NotRun

\* ensure_stegstr_suffix(&content)
NoteNormalise ==
  /\ pc = "note"
  /\ result' = EnsureStegstrSuffix(payload)
  /\ carrier' = result'.val
  /\ pc' = IF result'.ok THEN "normalised" ELSE "aborted"
  /\ UNCHANGED payload

\* ensure_stegstr_suffix of what ensure_stegstr_suffix returned
NoteNormaliseAgain ==
  /\ pc = "normalised"
  /\ result' = EnsureStegstrSuffix(carrier)
  /\ pc' = "renormalised"
  /\ UNCHANGED <<payload, carrier>>

NextNote == NoteNormalise \/ NoteNormaliseAgain

SpecNote == InitNote /\ [][NextNote]_vars

\* C12: whenever ensure_stegstr_suffix(m) returns, applying it to the result
\* returns the result unchanged, also when the truncation to 5000 bytes cut
\* into the appended suffix.
C12_SuffixIdempotence == pc = "renormalised" => result = Ok(carrier)

C12_Witness ==
  /\ pc = "renormalised"
  /\ Len(payload) < MAX_NOTE_LENGTH
  /\ Len(carrier) = MAX_NOTE_LENGTH
  /\ ~EndsWith(carrier, STEGSTR_SUFFIX)
  /\ result = Ok(carrier)

\* C13: for every message, also one with a multi-byte character across byte
\* offset 5000 after the suffix is appended, ensure_stegstr_suffix returns,
\* and what it returns has at most 5000 bytes.
C13_ContentLengthBound ==
  pc \in {"normalised", "aborted"} =>
    result.ok /\ Len(result.val) <= MAX_NOTE_LENGTH

(***************************************************************************)
(* CLI decode and detect: bin/stegstr_cli.rs, and decode_stego_image of    *)
(* lib.rs.  Strings are their UTF-8 bytes.                                 *)
(***************************************************************************)
\* The length in bytes of the White_Space character that starts at s[i] of a
\* UTF-8 string, 0 if the character there is not one (char::is_whitespace):
\* U+0009..U+000D, U+0020, U+0085, U+00A0, U+1680, U+2000..U+200A, U+2028,
\* U+2029, U+202F, U+205F, U+3000.
WhitespaceLen(s, i) ==
  LET n == Len(s) - i + 1
  IN  IF n >= 1 /\ ((s[i] >= 9 /\ s[i] <= 13) \/ s[i] = 32) THEN 1
      ELSE IF n >= 2 /\ s[i] = 194 /\ s[i + 1] \in {133, 160} THEN 2
      ELSE IF n >= 3 /\ s[i] = 225 /\ s[i + 1] = 154 /\ s[i + 2] = 128 THEN 3
      ELSE IF n >= 3 /\ s[i] = 226 /\ s[i + 1] = 128
                     /\ s[i + 2] \in (128..138) \cup {168, 169, 175} THEN 3
      ELSE IF n >= 3 /\ s[i] = 226 /\ s[i + 1] = 129 /\ s[i + 2] = 159 THEN 3
      ELSE IF n >= 3 /\ s[i] = 227 /\ s[i + 1] = 128 /\ s[i + 2] = 128 THEN 3
      ELSE 0

\* str::trim_start: the index of the first character that is not whitespace
RECURSIVE TrimStart(_, _)
TrimStart(s, i) ==
  IF i > Len(s) \/ WhitespaceLen(s, i) = 0 THEN i
  ELSE TrimStart(s, i + WhitespaceLen(s, i))

\* s.trim_start().starts_with('{')
StartsWithBrace(s) ==
  LET k == TrimStart(s, 1) IN k <= Len(s) /\ s[k] = 123

\* "base64:"
BASE64_PREFIX == <<98, 97, 115, 101, 54, 52, 58>>

\* The character of the 6-bit value v in the standard alphabet
Base64Char(v) ==
  IF v < 26 THEN 65 + v
  ELSE IF v < 52 THEN 97 + (v - 26)
  ELSE IF v < 62 THEN 48 + (v - 52)
  ELSE IF v = 62 THEN 43
  ELSE 47

\* The four characters of the group that starts at b[i]; "=" pads a short one
Base64Group(b, i) ==
  LET n  == Len(b) - i + 1
      b0 == b[i]
      b1 == IF n >= 2 THEN b[i + 1] ELSE 0
      b2 == IF n >= 3 THEN b[i + 2] ELSE 0
  IN  << Base64Char(b0 \div 4),
         Base64Char((b0 % 4) * 16 + (b1 \div 16)),
         IF n >= 2 THEN Base64Char((b1 % 16) * 4 + (b2 \div 64)) ELSE 61,
         IF n >= 3 THEN Base64Char(b2 % 64) ELSE 61 >>

\* general_purpose::STANDARD.encode(b)
RECURSIVE Base64From(_, _)
Base64From(b, i) ==
  IF i > Len(b) THEN <<>> ELSE Base64Group(b, i) \o Base64From(b, i + 3)

Base64Encode(b) == Base64From(b, 1)

\* Mutant of PayloadStr: the leading whitespace is not skipped.
PayloadStrNoTrim(payload_bytes) ==
  IF IsUtf8From(payload_bytes, 1) /\ Len(payload_bytes) > 0 /\ payload_bytes[1] = 123
  THEN payload_bytes
  ELSE BASE64_PREFIX \o Base64Encode(payload_bytes)

\* The match on String::from_utf8(payload.clone()) of run_decode and of
\* decode_stego_image
PayloadStr(payload_bytes) ==
  IF IsUtf8From(payload_bytes, 1) /\ StartsWithBrace(payload_bytes)
  THEN payload_bytes
  ELSE BASE64_PREFIX \o Base64Encode(payload_bytes)

\* run_decode: decoded is what stego::decode(path) returned; the value is
\* what is written to stdout, an error writes nothing there.
RunDecode(decoded, decrypt) ==
  IF ~decoded.ok THEN decoded
  ELSE IF decrypt /\ IsEncryptedPayload(decoded.val) THEN DecryptApp(decoded.val)
  ELSE IF decrypt
  THEN Err("Payload is not Stegstr app-encrypted (use without --decrypt for raw)")
  ELSE Ok(PayloadStr(decoded.val))

\* run_detect
RunDetect(decoded) ==
  IF ~decoded.ok THEN decoded
  ELSE IF IsEncryptedPayload(decoded.val) THEN DecryptApp(decoded.val)
  ELSE IF ~IsUtf8From(decoded.val, 1) THEN Err("invalid utf-8 sequence")
  ELSE decoded

\* decode_stego_image: ok and payload, or the error
DecodeStegoImage(decoded) ==
  IF decoded.ok THEN Ok(PayloadStr(decoded.val)) ELSE decoded

(***************************************************************************)
(* SpecCli: an image whose embedded payload is given (or that holds none)  *)
(* is put to decode, decode --decrypt, detect or decode_stego_image.       *)
(* carrier is what was written to stdout.                                  *)
(***************************************************************************)
\* {"a":1}
JsonA1 == <<123, 34, 97, 34, 58, 49, 125>>

CliPlainPayloads ==
  { JsonA1, <<32>> \o JsonA1, <<10, 9, 123, 125>>, <<194, 160, 123>>,
    <<227, 128, 128, 123>>, <<226, 128, 131, 123, 125>>, <<226, 128, 139, 123>>,
    <<120, 123>>, <<>>, <<32>>, <<97>>, <<97, 98>>, <<97, 98, 99>>, <<104, 105>>,
    <<222, 173, 190, 239>>, <<255>>, <<123, 255>>, <<32, 123, 195>>,
    <<0, 0, 0>>, <<255, 255, 255>>, <<251, 239, 190>>, <<0, 16, 131, 16, 81, 135>>,
    <<195, 169, 123>>, <<123>> \o <<226, 130, 172>> }

CliEnvelopes ==
  {EncryptApp(t, iv).val : t \in {JsonA1, <<104, 105>>, <<>>, <<32>> \o JsonA1},
                           iv \in {Zeros(IV_LEN), [i \in 1..IV_LEN |-> i]}}

CliPayloads == CliPlainPayloads \cup CliEnvelopes \cup EnvRawInputs

InitCli ==
  /\ carrier = <<>>
  /\ result = NotRun
  /\ \/ pc = "image" /\ payload \in CliPayloads
     \/ pc = "image_without_payload" /\ payload = <<>>

\* stego::decode(path) on the image
StegoDecoded ==
  IF pc = "image" THEN Ok(payload) ELSE Err("Not a Stegstr image (magic not found)")

CliRan(name, out) ==
  /\ result' = out
  /\ carrier' = out.val
  /\ pc' = IF pc = "image" THEN name ELSE name \o "_without_payload"
  /\ UNCHANGED payload

\* stegstr-cli decode <image> [--decrypt]
CliDecode ==
  /\ pc \in {"image", "image_without_payload"}
  /\ \/ CliRan("decode", RunDecode(StegoDecoded, FALSE))
     \/ CliRan("decode_decrypt", RunDecode(StegoDecoded, TRUE))

\* stegstr-cli detect <image>
CliDetect ==
  /\ pc \in {"image", "image_without_payload"}
  /\ CliRan("detect", RunDetect(StegoDecoded))

\* The decode_stego_image command
TauriDecodeStegoImage ==
  /\ pc \in {"image", "image_without_payload"}
  /\ CliRan("decode_stego_image", DecodeStegoImage(StegoDecoded))

NextCli == CliDecode \/ CliDetect \/ TauriDecodeStegoImage

SpecCli == InitCli /\ [][NextCli]_vars

\* C14: detect has the outcome of decode --decrypt on every decodable image;
\* when the recovered payload is not an envelope it fails and writes nothing
\* to stdout.
C14_DetectRequiresEnvelope ==
  pc = "detect" =>
    /\ result = RunDecode(Ok(payload), TRUE)
    /\ ~IsEncryptedPayload(payload) => ~result.ok /\ carrier = <<>>

\* The 6-bit value of a character of the standard alphabet; 0 for the pad
Base64Sextet(c) ==
  IF c >= 65 /\ c <= 90 THEN c - 65
  ELSE IF c >= 97 /\ c <= 122 THEN c - 97 + 26
  ELSE IF c >= 48 /\ c <= 57 THEN c - 48 + 52
  ELSE IF c = 43 THEN 62
  ELSE IF c = 47 THEN 63
  ELSE 0

\* text is the padded standard-alphabet base64 of bytes: 4 characters for
\* every 3 bytes begun, "=" in the places no byte reaches, and the sextets
\* spell the bytes.
IsBase64Of(text, bytes) ==
  LET n == Len(bytes)
      pad == (3 - (n % 3)) % 3
      sx(k) == Base64Sextet(text[k])
      byte(i) ==
        LET g == 4 * ((i - 1) \div 3)
            r == (i - 1) % 3
        IN  IF r = 0 THEN sx(g + 1) * 4 + (sx(g + 2) \div 16)
            ELSE IF r = 1 THEN (sx(g + 2) % 16) * 16 + (sx(g + 3) \div 4)
            ELSE (sx(g + 3) % 4) * 64 + sx(g + 4)
  IN  /\ Len(text) = 4 * ((n + 2) \div 3)
      /\ \A k \in 1..Len(text) :
           IF k > Len(text) - pad THEN text[k] = 61
           ELSE \/ text[k] \in (65..90) \cup (97..122) \cup (48..57) \cup {43, 47}
      /\ \A i \in 1..n : byte(i) = bytes[i]
      /\ pad > 0 => sx(Len(text) - pad) % (IF pad = 1 THEN 4 ELSE 16) = 0

\* out is "base64:" followed by the base64 of bytes
IsBase64Output(out, bytes) ==
  /\ Len(out) >= Len(BASE64_PREFIX)
  /\ SubSeq(out, 1, Len(BASE64_PREFIX)) = BASE64_PREFIX
  /\ IsBase64Of(SubSeq(out, Len(BASE64_PREFIX) + 1, Len(out)), bytes)

\* C15 as stated: decode without --decrypt writes the payload verbatim if it
\* begins, after optional leading whitespace, with "{", and otherwise writes
\* "base64:" and the standard base64 of the bytes.
C15_DecodeOutputSelection ==
  pc = "decode" =>
    /\ result.ok
    /\ IF StartsWithBrace(payload) THEN carrier = payload
       ELSE IsBase64Output(carrier, payload)

\* C15, amended: the payload is written verbatim if it is valid UTF-8 and
\* begins, after optional leading whitespace, with "{"; every other payload
\* is written as "base64:" and the standard base64 of the bytes.  {"a":1} is
\* written unchanged and DE AD BE EF as base64:3q2+7w==.
C15_DecodeOutputSelectionUtf8 ==
  pc \in {"decode", "decode_stego_image"} =>
    /\ result.ok
    /\ pc = "decode" => carrier = result.val
    /\ IF IsUtf8From(payload, 1) /\ StartsWithBrace(payload) THEN result.val = payload
       ELSE IsBase64Output(result.val, payload)
    /\ payload = JsonA1 => result.val = JsonA1
    /\ payload = <<222, 173, 190, 239>> =>
         result.val = BASE64_PREFIX \o <<51, 113, 50, 43, 55, 119, 61, 61>>

C15_Witness ==
  /\ pc = "decode"
  /\ payload = <<222, 173, 190, 239>>
  /\ carrier = BASE64_PREFIX \o <<51, 113, 50, 43, 55, 119, 61, 61>>

(***************************************************************************)
(* The QIM helper subprocess: encode_stego_qim and decode_stego_qim of     *)
(* lib.rs.                                                                 *)
(*                                                                         *)
(* SpecQim: payload is the call, [op, script] (script: qim_cli.exists());  *)
(* carrier is its surroundings, [clock, helper, channel]: the seconds      *)
(* since the call, the helper process, and the mpsc channel from the       *)
(* spawned thread; pc is the caller's position and result what it returned.*)
(* The helper exits when it pleases, or never.                             *)
(***************************************************************************)
\* Duration::from_secs(30)
QIM_TIMEOUT_SECS == 30

\* The clock is followed this many seconds past the timeout.
MaxOvertime == 3

QimNotFound == Err("QIM script not found")

InitQim ==
  /\ pc = "called"
  /\ payload \in [op : {"encode_stego_qim", "decode_stego_qim"}, script : BOOLEAN]
  /\ carrier = [clock |-> 0, helper |-> "not_spawned", channel |-> <<>>]
  /\ result = NotRun

\* encode_stego_qim up to Command::output(): the script is missing, the
\* spawn fails, or the helper runs and the caller waits in output()
QimEncodeCall ==
  /\ pc = "called" /\ payload.op = "encode_stego_qim"
  /\ \/ /\ ~payload.script
        /\ pc' = "returned" /\ result' = QimNotFound /\ UNCHANGED carrier
     \/ /\ payload.script
        /\ pc' = "returned" /\ result' = Err("QIM encode failed: spawn error")
        /\ UNCHANGED carrier
     \/ /\ payload.script
        /\ pc' = "encode_output" /\ carrier' = [carrier EXCEPT !.helper = "running"]
        /\ UNCHANGED result
  /\ UNCHANGED payload

\* Command::output() returns once the helper has exited
QimEncodeOutput ==
  /\ pc = "encode_output"
  /\ carrier.helper \in {"exit_success", "exit_failure"}
  /\ result' = IF carrier.helper = "exit_success" THEN Ok("output path")
               ELSE Err("QIM encode failed: stderr")
  /\ pc' = "returned"
  /\ UNCHANGED <<payload, carrier>>

\* decode_stego_qim up to recv_timeout: the script is missing, or the thread
\* is spawned; its Command::output() fails at once and it sends the error,
\* or the helper runs
QimDecodeCall ==
  /\ pc = "called" /\ payload.op = "decode_stego_qim"
  /\ \/ /\ ~payload.script
        /\ pc' = "returned" /\ result' = QimNotFound /\ UNCHANGED carrier
     \/ /\ payload.script
        /\ pc' = "decode_recv"
        /\ carrier' = [carrier EXCEPT !.helper = "spawn_error", !.channel = <<"spawn_error">>]
        /\ UNCHANGED result
     \/ /\ payload.script
        /\ pc' = "decode_recv" /\ carrier' = [carrier EXCEPT !.helper = "running"]
        /\ UNCHANGED result
  /\ UNCHANGED payload

\* The helper exits; the thread of decode_stego_qim sends the output (to a
\* receiver that may be gone: let _ = tx.send(out))
QimHelperExit ==
  /\ carrier.helper = "running"
  /\ \E status \in {"exit_success", "exit_failure"} :
       carrier' = [carrier EXCEPT !.helper = status,
                     !.channel = IF payload.op = "decode_stego_qim" /\ pc = "decode_recv"
                                 THEN <<status>> ELSE @]
  /\ UNCHANGED <<pc, payload, result>>

\* rx.recv_timeout returns the message
QimDecodeRecv ==
  /\ pc = "decode_recv"
  /\ carrier.channel # <<>>
  /\ \/ /\ carrier.channel[1] = "spawn_error"
        /\ result' = Err("QIM decode failed: spawn error")
     \/ /\ carrier.channel[1] = "exit_failure"
        /\ result' = Err("QIM decode failed: stderr")
     \/ /\ carrier.channel[1] = "exit_success"
        /\ result' \in {Ok("base64: payload"), Err("QIM payload decode error")}
  /\ carrier' = [carrier EXCEPT !.channel = <<>>]
  /\ pc' = "returned"
  /\ UNCHANGED payload

\* rx.recv_timeout returns RecvTimeoutError::Timeout
QimDecodeTimeout ==
  /\ pc = "decode_recv"
  /\ carrier.channel = <<>>
  /\ carrier.clock >= QIM_TIMEOUT_SECS
  /\ result' = Err("QIM decode timed out after 30 seconds")
  /\ pc' = "returned"
  /\ UNCHANGED <<payload, carrier>>

\* A second passes.  recv_timeout does not let time pass once it has a
\* message or its 30 seconds are over; output() waits without limit.
QimTick ==
  /\ pc \in {"encode_output", "decode_recv"}
  /\ carrier.clock < QIM_TIMEOUT_SECS + MaxOvertime
  /\ pc = "decode_recv" => carrier.channel = <<>> /\ carrier.clock < QIM_TIMEOUT_SECS
  /\ carrier' = [carrier EXCEPT !.clock = @ + 1]
  /\ UNCHANGED <<pc, payload, result>>

NextQim ==
  \/ QimEncodeCall \/ QimEncodeOutput \/ QimDecodeCall \/ QimHelperExit
  \/ QimDecodeRecv \/ QimDecodeTimeout \/ QimTick

SpecQim == InitQim /\ [][NextQim]_vars

\* C16: encode_stego_qim and decode_stego_qim both return within the 30
\* seconds, with a timeout error when the helper is still running then: no
\* call is still waiting after second 30, and a call that returns at second
\* 30 while the helper runs reports the timeout.
C16_BoundedAuxiliaryWork ==
  /\ carrier.clock > QIM_TIMEOUT_SECS => pc = "returned"
  /\ (pc = "returned" /\ carrier.clock >= QIM_TIMEOUT_SECS /\ carrier.helper = "running")
       => result = Err("QIM decode timed out after 30 seconds")

(***************************************************************************)
(* Event constructor: create_kind1_event and run_post of                   *)
(* bin/stegstr_cli.rs.                                                     *)
(*                                                                         *)
(* SHA-256 and the secp256k1 key and Schnorr operations are the sha2 and   *)
(* secp256k1 crates', not this program's; they are modelled by             *)
(* deterministic functions of the same shape (a 32-byte digest of the      *)
(* bytes, a 32-byte x-only key of the secret key, a 64-byte signature of   *)
(* digest and secret key).  Secret keys are small numbers, 0 being the     *)
(* scalar SecretKey::from_slice rejects.                                   *)
(***************************************************************************)
\* One lowercase hex digit
HexChar(v) == IF v < 10 THEN 48 + v ELSE 97 + (v - 10)

\* hex::encode
HexEncode(bytes) ==
  [k \in 1..(2 * Len(bytes)) |->
     LET b == bytes[(k + 1) \div 2]
     IN  HexChar(IF k % 2 = 1 THEN b \div 16 ELSE b % 16)]

\* The position-weighted sum of bytes[lo..hi]
RECURSIVE WeightedSum(_, _, _)
WeightedSum(bytes, lo, hi) ==
  IF lo > hi THEN 0
  ELSE IF lo = hi THEN (bytes[lo] + 1) * ((lo % 251) + 1)
  ELSE LET mid == (lo + hi) \div 2
       IN  (WeightedSum(bytes, lo, mid) + WeightedSum(bytes, mid + 1, hi)) % 65521

\* Sha256::digest(bytes)
Sha256(bytes) ==
  LET acc == WeightedSum(bytes, 1, Len(bytes))
  IN  [j \in 1..32 |-> (acc * j + (acc \div 256) + j * j) % 256]

\* xonly.serialize() of the keypair of sk
XOnlyPublicKey(sk) == [j \in 1..32 |-> (sk * 37 + j * 11) % 256]

\* secp.sign_schnorr_no_aux_rand(&msg, &keypair).serialize()
SignSchnorrNoAuxRand(digest, sk) ==
  [j \in 1..64 |-> (digest[((j - 1) % 32) + 1] * 3 + sk * 5 + j) % 256]

\* The decimal digits of n
RECURSIVE Digits(_)
Digits(n) == IF n < 10 THEN <<48 + n>> ELSE Digits(n \div 10) \o <<48 + (n % 10)>>

\* serde_json's escape of one byte of a string
JsonEscapeByte(b) ==
  IF b = 34 THEN <<92, 34>>
  ELSE IF b = 92 THEN <<92, 92>>
  ELSE IF b = 8 THEN <<92, 98>>
  ELSE IF b = 12 THEN <<92, 102>>
  ELSE IF b = 10 THEN <<92, 110>>
  ELSE IF b = 13 THEN <<92, 114>>
  ELSE IF b = 9 THEN <<92, 116>>
  ELSE IF b < 32 THEN <<92, 117, 48, 48, HexChar(b \div 16), HexChar(b % 16)>>
  ELSE <<b>>

\* A string as serde_json writes it, quotes included
RECURSIVE JsonEscapeFrom(_, _, _)
JsonEscapeFrom(str, lo, hi) ==
  IF lo > hi THEN <<>>
  ELSE IF lo = hi THEN JsonEscapeByte(str[lo])
  ELSE LET mid == (lo + hi) \div 2
       IN  JsonEscapeFrom(str, lo, mid) \o JsonEscapeFrom(str, mid + 1, hi)

JsonString(str) == <<34>> \o JsonEscapeFrom(str, 1, Len(str)) \o <<34>>

\* serde_json::to_string(&json!([0, pubkey_hex, created_at, 1, tags, content]))
\* with tags empty
SerializePreimage(pubkey_hex, created_at, content) ==
  <<91, 48, 44>> \o JsonString(pubkey_hex) \o <<44>> \o Digits(created_at)
    \o <<44, 49, 44, 91, 93, 44>> \o JsonString(content) \o <<93>>

\* create_kind1_event(content, sk), now being SystemTime::now() in seconds
CreateKind1Event(content, sk, now) ==
  LET pubkey_hex == HexEncode(XOnlyPublicKey(sk))
      id_hash == Sha256(SerializePreimage(pubkey_hex, now, content))
  IN  [id_hex |-> HexEncode(id_hash), pubkey_hex |-> pubkey_hex, created_at |-> now,
       sig_hex |-> HexEncode(SignSchnorrNoAuxRand(id_hash, sk))]

\* The bundle run_post builds around what create_kind1_event returned
PostBundle(ev, content_with_suffix) ==
  [version |-> 1,
   events |-> << [id |-> ev.id_hex, pubkey |-> ev.pubkey_hex,
                  created_at |-> ev.created_at, kind |-> 1, tags |-> <<>>,
                  content |-> content_with_suffix, sig |-> ev.sig_hex] >>]

\* --privkey-hex is absent
PrivkeyAbsent == -1

\* --privkey-hex has a value hex::decode rejects
PrivkeyNotHex == -2

\* Mutant of RunPost: the event is created over the content as given, the
\* bundle carries the content with the suffix.
RunPostRawContent(content, sk, now) ==
  LET content_with_suffix == EnsureStegstrSuffix(content)
  IN  IF ~content_with_suffix.ok THEN content_with_suffix
      ELSE IF sk = PrivkeyNotHex THEN Err("Invalid character")
      ELSE IF sk = 0 THEN Err("malformed or out-of-range secret key")
      ELSE Ok(PostBundle(CreateKind1Event(content, sk, now), content_with_suffix.val))

\* run_post once the arguments are parsed: sk is what --privkey-hex decodes
\* to, or the key generated for the run
RunPost(content, sk, now) ==
  LET content_with_suffix == EnsureStegstrSuffix(content)
  IN  IF ~content_with_suffix.ok THEN content_with_suffix
      ELSE IF sk = PrivkeyNotHex THEN Err("Invalid character")
      ELSE IF sk = 0 THEN Err("malformed or out-of-range secret key")
      ELSE Ok(PostBundle(CreateKind1Event(content_with_suffix.val, sk, now),
                         content_with_suffix.val))

(***************************************************************************)
(* SpecPost: post is run, and run again with the same arguments.  payload  *)
(* is the arguments [content, privkey], carrier the secret key and the     *)
(* time of the latest run, result the bundle it emitted.                   *)
(***************************************************************************)
MaxSecretKey == 2

SecretKeys == 1..MaxSecretKey

\* Seconds since the epoch at which a run may happen
PostTimes == {0, 1700000000, 1700000001}

\* "hi", the empty message, messages with characters JSON escapes, a
\* two-byte character, a message that has the suffix, and long ones
PostContents ==
  { <<104, 105>>, <<>>, <<97, 34, 98>>, <<92>>, <<10, 9, 13, 8, 12>>, <<1, 31, 127>>,
    <<195, 169>>, <<104, 105>> \o STEGSTR_SUFFIX,
    [i \in 1..(MAX_NOTE_LENGTH - 10) |-> 97],
    [i \in 1..(MAX_NOTE_LENGTH - 1) |-> 97] \o <<195, 169>> }

InitPost ==
  /\ pc = "post"
  /\ payload \in [content : PostContents,
                  privkey : {PrivkeyAbsent, PrivkeyNotHex, 0} \cup SecretKeys]
  /\ carrier = <<>>
  /\ result = NotRun

\* stegstr-cli post "content" [--privkey-hex HEX]
Post ==
  /\ pc \in {"post", "posted"}
  /\ \E now \in PostTimes :
     \E sk \in IF payload.privkey = PrivkeyAbsent THEN SecretKeys ELSE {payload.privkey} :
       /\ result' = RunPost(payload.content, sk, now)
       /\ carrier' = IF result'.ok THEN [sk |-> sk, now |-> now] ELSE <<>>
       /\ pc' = IF result'.ok THEN "posted" ELSE "post_failed"
  /\ UNCHANGED payload

NextPost == Post

SpecPost == InitPost /\ [][NextPost]_vars

\* The event of the emitted bundle
PostedEvent == result.val.events[1]

\* Every bundle post emits has version 1 and exactly one event, of kind
\* 1 with empty tags, whose id is the SHA-256 of the compact pre-image
\* [0, pubkey, created_at, 1, [], content] of its own pubkey, created_at and
\* content, the content being the suffix-normalised message; ...
EventConsistent ==
  pc = "posted" =>
    /\ result.val.version = 1
    /\ Len(result.val.events) = 1
    /\ PostedEvent.kind = 1
    /\ PostedEvent.tags = <<>>
    /\ PostedEvent.content = EnsureStegstrSuffix(payload.content).val
    /\ PostedEvent.created_at = carrier.now
    /\ PostedEvent.pubkey = HexEncode(XOnlyPublicKey(carrier.sk))
    /\ PostedEvent.id =
         HexEncode(Sha256(<<91, 48, 44, 34>> \o PostedEvent.pubkey \o <<34, 44>>
                            \o Digits(PostedEvent.created_at) \o <<44, 49, 44, 91, 93, 44>>
                            \o JsonString(PostedEvent.content) \o <<93>>))
    /\ (payload.content = <<104, 105>> /\ carrier.now = 1700000000) =>
         PostedEvent.id =
           HexEncode(Sha256(<<91, 48, 44, 34>> \o PostedEvent.pubkey
             \o <<34, 44, 49, 55, 48, 48, 48, 48, 48, 48, 48, 48, 44, 49, 44, 91, 93, 44, 34,
                  104, 105>> \o STEGSTR_SUFFIX \o <<34, 93>>))

\* ... and a run with the same secret key, content and created_at emits the
\* same id and signature.
EventDeterministic ==
  (pc = "posted" /\ pc' = "posted" /\ carrier' = carrier) =>
    /\ result'.val.events[1].id = PostedEvent.id
    /\ result'.val.events[1].sig = PostedEvent.sig

\* C17: every emitted bundle is consistent (EventConsistent), and reruns with
\* the same secret key, content and created_at give the same id and
\* signature (EventDeterministic).
C17_EventBundleConsistency == []EventConsistent /\ [][EventDeterministic]_vars

C17_Witness ==
  /\ pc = "posted"
  /\ payload.content = <<97, 34, 98>>
  /\ payload.privkey = PrivkeyAbsent
  /\ carrier = [sk |-> MaxSecretKey, now |-> 1700000000]
  /\ PostedEvent.content = <<97, 34, 98>> \o STEGSTR_SUFFIX
  /\ Len(PostedEvent.id) = 64
  /\ Len(PostedEvent.sig) = 128

(***************************************************************************)
(* SpecHaar: one 2x2 block of one channel goes through embed_in_tile's     *)
(* forward transform, LSB replacement and clamped inverse, and is read     *)
(* back as decode_from_tile reads it.  payload is the block [px, bit],     *)
(* carrier the block written, result the bit read.                         *)
(***************************************************************************)
\* Channel values of the blocks: both ends of the range and its middle
HaarLevels == {0, 1, 2, 3, 127, 128, 253, 254, 255}

InitHaar ==
  /\ pc = "block"
  /\ payload \in [px : [0..3 -> HaarLevels], bit : {0, 1}]
  /\ carrier = <<>>
  /\ result = NotRun

\* embed_in_tile on the block, then decode_from_tile's (lh & 1) of it
HaarEmbedBlock ==
  /\ pc = "block"
  /\ carrier' = [n \in 0..3 |-> BlockEmbedded(payload.px, payload.bit, n % 2, n \div 2)]
  /\ result' = Ok(Haar2dForward(carrier').lh % 2)
  /\ pc' = "block_embedded"
  /\ UNCHANGED payload

NextHaar == HaarEmbedBlock

SpecHaar == InitHaar /\ [][NextHaar]_vars

\* C18: for every 2x2 block of values in 0..255 and every bit v, the forward
\* transform, LH's least-significant bit replaced by v, the clamped inverse
\* and the forward transform again give an LH whose least-significant bit
\* is v.
C18_EmbeddedBitSurvives == pc = "block_embedded" => result.val = payload.bit

(***************************************************************************)
(* SpecSearch: decode_from_tile on small tiles whose LH bit string is      *)
(* chosen: lead filler bits, in the largest tile a frame header whose      *)
(* length does not fit, then a frame of len bytes; zeros after it.  It is  *)
(* put into a flat grey tile by embed_in_tile, which at that level writes  *)
(* every bit as given.  payload is the choice, carrier the tile.           *)
(***************************************************************************)
MaxSearchLen == 2

\* Tiles <<tw, th>> of 96, 108 and 192 bits
SearchTiles == { <<16, 8>>, <<12, 12>>, <<16, 16>> }

TileTotalBits(tile) == (tile[1] \div 2) * (tile[2] \div 2) * 3

FrameHeaderBits == (MAGIC_LEN + LENGTH_BYTES) * 8

SearchChoices ==
  { c \in [tile : SearchTiles, lead : 0..(TileTotalBits(<<16, 16>>) - FrameHeaderBits),
           fill : {0, 1}, len : 0..MaxSearchLen, decoy : BOOLEAN] :
      /\ c.decoy <=> c.tile = <<16, 16>>
      /\ c.lead + (IF c.decoy THEN 2 ELSE 1) * FrameHeaderBits <= TileTotalBits(c.tile) }

\* The bits chosen by c, cut to the whole bytes the tile holds
ChoiceBytes(c) ==
  LET n == (TileTotalBits(c.tile) \div 8) * 8
      bits == [k \in 1..c.lead |-> c.fill]
                \o (IF c.decoy THEN BytesToBits(MAGIC \o Be32(200)) ELSE <<>>)
                \o BytesToBits(MAGIC \o Be32(c.len) \o [i \in 1..c.len |-> 165])
                \o [k \in 1..n |-> 0]
  IN  BitsToBytes(bits, n)

SearchTile(c) ==
  [w |-> c.tile[1], h |-> c.tile[2],
   raw |-> EmbedInTile(CoverImage(Flat(128, c.tile[1], c.tile[2])).raw,
                       c.tile[1], c.tile[2], ChoiceBytes(c)).val]

InitSearch ==
  /\ pc = "tile"
  /\ payload \in SearchChoices
  /\ carrier = SearchTile(payload)
  /\ result = NotRun

\* decode_from_tile(raw, tw, th)
SearchExtract ==
  /\ pc = "tile"
  /\ result' = DecodeFromTile(carrier.raw, carrier.w, carrier.h)
  /\ pc' = "searched"
  /\ UNCHANGED <<payload, carrier>>

NextSearch == SearchExtract

SpecSearch == InitSearch /\ [][NextSearch]_vars

\* The bit offsets of the tile at which the next 56 bits spell "STEGSTR" and
\* the 32-bit LEN after them satisfies offset + 88 + 8 * LEN <= total_bits
FramedOffsets(img) ==
  {s \in 0..(TileTotalBits(<<img.w, img.h>>) - FrameHeaderBits) :
     FrameAt(img.raw, img.w, img.h, s)}

SetMin(S) == CHOOSE m \in S : \A x \in S : m <= x

\* C19: per-tile extract returns the LEN bytes of the lowest bit offset at
\* which "STEGSTR" and a LEN with offset + 88 + 8 * LEN <= total_bits stand,
\* offset = total_bits - 88 with LEN = 0 included; it fails as not found
\* only if there is no such offset.
C19_SearchCompleteness ==
  pc = "searched" =>
    LET offsets == FramedOffsets(carrier)
    IN  IF offsets = {} THEN ~result.ok
        ELSE result = ExtractAt(carrier.raw, carrier.w, carrier.h, SetMin(offsets))

(***************************************************************************)
(* SpecTiles: encode on covers of one or more grid tiles per row whose     *)
(* tiles differ.  carrier is the cover, result the encoded image.          *)
(***************************************************************************)
Bands(v, w, h) == [kind |-> "bands", v |-> v, w |-> w, h |-> h]

AlphaRamp(v, w, h) == [kind |-> "alpha_ramp", v |-> v, w |-> w, h |-> h]

TileCovers ==
  {Bands(v, w, h) : v \in {0, 32, 100, 128}, w \in {256, 300, 512, 768}, h \in {256, 258, 512}}
    \cup {AlphaRamp(128, w, h) : w \in {16, 256, 257, 512, 514}, h \in {16, 256, 257}}

InitTiles ==
  /\ pc = "cover"
  /\ payload \in DwtPayloads
  /\ carrier \in {CoverImage(c) : c \in TileCovers}
  /\ result = NotRun

\* stego::encode(cover, payload)
TilesEncode ==
  /\ pc = "cover"
  /\ result' = Encode(carrier, payload)
  /\ pc' = IF result'.ok THEN "tiles_encoded" ELSE "encode_failed"
  /\ UNCHANGED <<payload, carrier>>

NextTiles == TilesEncode

SpecTiles == InitTiles /\ [][NextTiles]_vars

\* The index in a w-wide RGBA raster of channel ch of the pixel (x, y)
PixelIndex(w, x, y, ch) == (y * w + x) * 4 + ch

\* Block (i, j) of channel ch of the grid tile at (tx, ty) of the encoded
\* image out is the per-tile embed of the cover block at the same image
\* position: its four pixels are the clamped inverse of the cover block's
\* coefficients, LH carrying bit g of to_embed where there is one.
BlockIsLocal(cover_img, out, to_embed, tx, ty, i, j, ch, g) ==
  LET px == [n \in 0..3 |->
               ByteAt(cover_img, PixelIndex(out.w, tx + 2 * j + (n % 2),
                                            ty + 2 * i + (n \div 2), ch))]
      bit == IF g >= Len(to_embed) * 8 THEN -1 ELSE EmbedBit(to_embed, g)
  IN  \A n \in 0..3 :
        ByteAt(out.raw, PixelIndex(out.w, tx + 2 * j + (n % 2), ty + 2 * i + (n \div 2), ch))
          = BlockEmbedded(px, bit, n % 2, n \div 2)

\* The blocks that carry the bits of to_embed, and the 8 after them, of the
\* tile at (tx, ty) are local.  Bit g belongs to channel g / blocks and to
\* block g % blocks of it, the blocks of a channel in row-major order.
TileIsLocal(cover_img, out, to_embed, tx, ty) ==
  LET half_w == TileExtent(out.w, tx) \div 2
      blocks == half_w * (TileExtent(out.h, ty) \div 2)
  IN  \A g \in 0..(Min(Len(to_embed) * 8 + 8, blocks * 3) - 1) :
        BlockIsLocal(cover_img, out, to_embed, tx, ty,
                     (g % blocks) \div half_w, (g % blocks) % half_w, g \div blocks, g)

\* C20: in every grid tile that receives the payload, tiles with tx > 0
\* included, the pixels written are the per-tile embed of the cover pixels
\* of that same tile region: each output 2x2 block is a function of the
\* cover's block at the same image position and of its payload bit.
C20_TileLocality ==
  pc = "tiles_encoded" =>
    \A ty \in TileOrigins(result.val.h) : \A tx \in TileOrigins(result.val.w) :
      TileHasCapacity(result.val.w, result.val.h, tx, ty, Len(ToEmbed(payload)) * 8) =>
        TileIsLocal(carrier.raw, result.val, ToEmbed(payload), tx, ty)

\* Pixels are compared at every AlphaStride-th column and row, and next to
\* the tile boundaries and the edges.
AlphaStride == 17

AlphaSamples(n) ==
  {x \in 0..(n - 1) : x % AlphaStride = 0 \/ x % TILE_SIZE \in {0, 1, TILE_SIZE - 1}
                       \/ x >= n - 2}

\* C21: whenever stego::encode succeeds, the alpha of every pixel (x, y) of
\* the output is the alpha of pixel (x, y) of the even-cropped cover, in
\* single-tile and in multi-tile images.
C21_AlphaUntouched ==
  pc = "tiles_encoded" =>
    LET cover_img == EnsureEvenDimensions(carrier)
    IN  /\ result.val.w = cover_img.w
        /\ result.val.h = cover_img.h
        /\ \A y \in AlphaSamples(cover_img.h) : \A x \in AlphaSamples(cover_img.w) :
             ByteAt(result.val.raw, PixelIndex(cover_img.w, x, y, 3))
               = ByteAt(cover_img.raw, PixelIndex(cover_img.w, x, y, 3))

(***************************************************************************)
(* SpecCapacity: encode on small and on thin covers with payloads around   *)
(* their capacities.  carrier is the cover, result the encoded image.      *)
(***************************************************************************)
MaxCapacityLen == 90

\* <<w, h>>: below 2x2, a few blocks, one small tile, thin rasters of two to
\* four grid tiles
CapacitySizes ==
  { <<1, 1>>, <<1, 40>>, <<2, 2>>, <<3, 3>>, <<8, 8>>, <<10, 12>>, <<16, 16>>, <<17, 17>>,
    <<256, 2>>, <<512, 2>>, <<513, 3>>, <<600, 2>>, <<2, 512>>, <<1024, 2>> }

InitCapacity ==
  /\ pc = "cover"
  /\ payload \in {[i \in 1..n |-> 165] : n \in 0..MaxCapacityLen}
  /\ carrier \in {CoverImage(Flat(128, s[1], s[2])) : s \in CapacitySizes}
  /\ result = NotRun

\* stego::encode(cover, payload)
CapacityEncode ==
  /\ pc = "cover"
  /\ result' = Encode(carrier, payload)
  /\ pc' = IF result'.ok THEN "capacity_encoded" ELSE "capacity_failed"
  /\ UNCHANGED <<payload, carrier>>

NextCapacity == CapacityEncode

SpecCapacity == InitCapacity /\ [][NextCapacity]_vars

\* 8 * (11 + len(payload)) > 3 * (W / 2) * (H / 2)
FrameTooLarge(img, p) == 8 * (11 + Len(p)) > 3 * (img.w \div 2) * (img.h \div 2)

\* No tile of the 256x256 grid over img holds the frame of p.
NoTileHolds(img, p) ==
  \A ty \in {t \in 0..(img.h - 1) : t % 256 = 0} :
    \A tx \in {t \in 0..(img.w - 1) : t % 256 = 0} :
      8 * (11 + Len(p)) > 3 * (Min(256, img.w - tx) \div 2) * (Min(256, img.h - ty) \div 2)

\* out is cover_img with the frame of p embedded once, the whole raster
\* being the tile: the blocks that carry the bits, and the 8 after them.
WholeRasterEmbedded(cover_img, out, p) ==
  LET half_w == out.w \div 2
      blocks == half_w * (out.h \div 2)
  IN  \A g \in 0..(Min(8 * (11 + Len(p)) + 8, blocks * 3) - 1) :
        BlockIsLocal(cover_img.raw, out, MAGIC \o Be32(Len(p)) \o p, 0, 0,
                     (g % blocks) \div half_w, (g % blocks) % half_w, g \div blocks, g)

CapacityRules(img) ==
  /\ result.err = "Payload too large" <=> FrameTooLarge(img, payload)
  /\ (NoTileHolds(img, payload) /\ ~FrameTooLarge(img, payload)) =>
       /\ result.ok
       /\ result.val.w = img.w /\ result.val.h = img.h
       /\ WholeRasterEmbedded(img, result.val, payload)

\* C22 as stated: on the even-cropped W x H raster encode returns the
\* payload-too-large error exactly if 8*(11+len(payload)) > 3*(W/2)*(H/2);
\* when no grid tile holds the frame but the whole raster does, the frame is
\* embedded once with the whole raster as the tile, without error.
C22_CapacityAndLegacyPath ==
  pc \in {"capacity_encoded", "capacity_failed"} =>
    CapacityRules(EnsureEvenDimensions(carrier))

\* C22, amended: the same on every even-cropped raster of at least 2x2; a
\* smaller one is refused as too small whatever the payload.
C22_CapacityAndLegacyPathFrom2x2 ==
  pc \in {"capacity_encoded", "capacity_failed"} =>
    LET img == EnsureEvenDimensions(carrier)
    IN  IF img.w >= 2 /\ img.h >= 2 THEN CapacityRules(img)
        ELSE result = Err("Image must be at least 2x2 after cropping to even dimensions")

C22_Witness ==
  /\ pc = "capacity_encoded"
  /\ carrier.w = 513 /\ carrier.h = 3
  /\ Len(payload) = 85
  /\ NoTileHolds(EnsureEvenDimensions(carrier), payload)
  /\ result.ok

(***************************************************************************)
(* SpecDotFit: the capacity helper against encode, on one-row covers whose *)
(* raw capacity lies around the 13 overhead bytes, and on a one-row cover  *)
(* whose helper value is above what the 16-bit length can express.         *)
(***************************************************************************)
MinFitCells == 150

MaxFitCells == 185

MaxFitLen == 3

\* The least number of cells for which max_payload_bytes_for_image exceeds
\* u16::MAX - (MAGIC_LEN + LENGTH_BYTES) = 65524
WideCells == 786456

\* A flat white cover of one row of n cells (none for n = 0)
RowCover(n) ==
  [w |-> IF n = 0 THEN 3 ELSE 4 + STEP * (n - 1), h |-> 4,
   cover |-> [kind |-> "flat", v |-> 255], dots |-> <<>>, altered |-> <<>>]

InitDotFit ==
  /\ pc = "cover"
  /\ \/ /\ carrier \in {RowCover(n) : n \in {0} \cup MinFitCells..MaxFitCells}
        /\ payload \in {[i \in 1..n |-> 65] : n \in 0..MaxFitLen}
     \/ /\ carrier = RowCover(WideCells)
        /\ payload = [i \in 1..(65535 - MAGIC_LEN - LENGTH_BYTES + 1) |-> 65]
  /\ result = NotRun

NextDotFit == DotCapacity \/ DotEncode

SpecDotFit == InitDotFit /\ [][NextDotFit]_vars

\* C23: stego_dot::encode succeeds exactly if the payload is no longer than
\* max_payload_bytes of the image, also where the raw capacity is below the
\* 13 overhead bytes and where the helper exceeds the 16-bit length's range.
C23_CapacityHelperExact ==
  pc \in {"encoded", "encode_failed"} =>
    (pc = "encoded" <=> Len(payload) <= MaxPayloadBytesForImage(carrier))

(***************************************************************************)
(* SpecDotTamper: encode into a cover of 289 cells, alter the pixels of    *)
(* one cell of every symbol, decode.                                       *)
(***************************************************************************)
\* "", "Hi, World", and "Hello, World", which 289 cells cannot hold
TamperPayloads ==
  {p \in DotPayloads : Len(p) \in {0, 12}} \cup {<<72, 105, 44, 32, 87, 111, 114, 108, 100>>}

TamperCovers == {c \in DotCovers : c.w = 100 /\ c.h = 100 /\ c.cover.v = 0}

\* How the four pixels of a cell are altered
TamperPatterns == {"black", "white", "next", "prev", "noise", "cover"}

\* Which cell of symbol gi is altered: cell (cell + gi * turn) % REPEAT
TamperPlans == [cell : 0..(REPEAT - 1), turn : {0, 1}, pat : TamperPatterns]

\* The value pattern pat gives the pixel at (x, y), offset i of a cell
\* written with symbol sym
TamperedPixel(img, pat, x, y, i, sym) ==
  IF pat = "black" THEN Black
  ELSE IF pat = "white" THEN White
  ELSE IF pat = "next" THEN (IF i = (sym + 1) % 4 THEN Black ELSE White)
  ELSE IF pat = "prev" THEN (IF i = (sym + 3) % 4 THEN <<0, 0, 1>> ELSE <<0, 1, 1>>)
  ELSE IF pat = "noise" THEN <<(x * 7 + sym) % 256, (y * 5 + i) % 256, (x + y) % 256>>
  ELSE CoverPixel(img.cover, x, y)

\* The encoded image img with one cell of each chosen symbol altered
Tampered(img, plan) ==
  LET positions == ShufflePositions(CellPositions(img.w, img.h))
      groups == Cardinality(DOMAIN img.dots) \div REPEAT
      cells == {positions[gi * REPEAT + ((plan.cell + gi * plan.turn) % REPEAT) + 1] :
                  gi \in 0..(groups - 1)}
      \* the pixel at (x, y) is offset <<dx, dy>> of the cell at (x - dx, y - dy)
      dx(x) == (x - OFFSET) % STEP
      dy(y) == (y - OFFSET) % STEP
  IN  [img EXCEPT !.altered =
         [p \in {<<c[1] + Offsets[i][1], c[2] + Offsets[i][2]>> : c \in cells, i \in 0..3} |->
            TamperedPixel(img, plan.pat, p[1], p[2], dx(p[1]) * 2 + dy(p[2]),
                          img.dots[<<p[1] - dx(p[1]), p[2] - dy(p[2])>>])]]

InitDotTamper ==
  /\ pc = "cover"
  /\ payload \in TamperPayloads
  /\ carrier \in TamperCovers
  /\ result = NotRun

\* The encoded image is altered between stego_dot::encode and
\* stego_dot::decode.
DotTamper ==
  /\ pc = "encoded"
  /\ \E plan \in TamperPlans : carrier' = Tampered(carrier, plan)
  /\ pc' = "tampered"
  /\ UNCHANGED <<payload, result>>

\* stego_dot::decode(altered image)
DotDecodeTampered ==
  /\ pc = "tampered"
  /\ result' = DecodeOffset(carrier)
  /\ pc' = "tampered_decoded"
  /\ UNCHANGED <<payload, carrier>>

NextDotTamper == DotEncode \/ DotTamper \/ DotDecodeTampered

SpecDotTamper == InitDotTamper /\ [][NextDotTamper]_vars

\* C24: when the pixels of at most one of the REPEAT = 3 cells of each symbol
\* were altered after encoding, stego_dot::decode returns the payload that
\* was encoded.
C24_RepetitionTolerance == pc = "tampered_decoded" => result = Ok(payload)

\* The payload came back although an altered cell reads as another symbol
\* than the one written.
C24_Witness ==
  /\ pc = "tampered_decoded"
  /\ Len(payload) = 9
  /\ result = Ok(payload)
  /\ \E c \in DOMAIN carrier.dots : CellSymbol(carrier, c[1], c[2]) # carrier.dots[c]
  /\ Cardinality(DOMAIN carrier.altered) = 4 * (Cardinality(DOMAIN carrier.dots) \div REPEAT)
====
